---- MODULE Spec2Model ----
(***************************************************************************)
(* The RAG context pipeline of akii-mcp-server: LightRAGContextProvider    *)
(* (embed -> retrieve -> build -> web search -> summarize), with the       *)
(* LightRAG module (embedder, retriever, context builder) and the Brave    *)
(* search provider it falls back to.                                       *)
(*                                                                         *)
(* Conventions                                                             *)
(*   - strings are TLA+ strings; Len, \o and SubSeq act on them;           *)
(*   - an optional value (undefined / null in the source) is <<>> and a    *)
(*     present value v is <<v>>;                                           *)
(*   - similarity scores and thresholds are hundredths (0.75 is 75).       *)
(***************************************************************************)
EXTENDS Integers, Sequences, FiniteSets, TLC

(***************************************************************************)
(* Bounds of the model                                                     *)
(***************************************************************************)
\* number of rows of the document_vectors table that are populated
StoreSize == 4
\* largest number of web results the Brave API answers with
MaxWebResults == 2
\* largest token figure a backend reports in a usage field
MaxUsage == 2

(***************************************************************************)
(* Optional values and JavaScript operators                                *)
(***************************************************************************)
None == <<>>

Some(v) == <<v>>

\* a ?? b
Nullish(a, b) == IF a = None THEN b ELSE a[1]

\* a || b for numbers: undefined, null and 0 are falsy
OrNum(a, b) == IF a = None \/ a[1] = 0 THEN b ELSE a[1]

\* a || b for strings: undefined, null and '' are falsy
OrStr(a, b) == IF a = None \/ a[1] = "" THEN b ELSE a[1]

\* Math.ceil(n / d) for n >= 0, d > 0
CeilDiv(n, d) == (n + d - 1) \div d

Min(a, b) == IF a < b THEN a ELSE b

CharAt(s, i) == SubSeq(s, i, i)

\* String.prototype.substring(0, n)
Substring0(s, n) == SubSeq(s, 1, Min(n, Len(s)))

\* String.prototype.includes
Includes(s, sub) ==
  \E i \in 1..(Len(s) - Len(sub) + 1) : SubSeq(s, i, i + Len(sub) - 1) = sub

IsSpace(c) == c \in {" ", "\n", "\t"}

RECURSIVE TrimStart(_)
TrimStart(s) ==
  IF Len(s) > 0 /\ IsSpace(CharAt(s, 1)) THEN TrimStart(SubSeq(s, 2, Len(s))) ELSE s

RECURSIVE TrimEnd(_)
TrimEnd(s) ==
  IF Len(s) > 0 /\ IsSpace(CharAt(s, Len(s))) THEN TrimEnd(SubSeq(s, 1, Len(s) - 1)) ELSE s

\* String.prototype.trim
Trim(s) == TrimEnd(TrimStart(s))

UpperLetters == "ABCDEFGHIJKLMNOPQRSTUVWXYZ"

LowerLetters == "abcdefghijklmnopqrstuvwxyz"

LowerChar(c) ==
  IF \E i \in 1..26 : CharAt(UpperLetters, i) = c
  THEN CharAt(LowerLetters, CHOOSE i \in 1..26 : CharAt(UpperLetters, i) = c)
  ELSE c

RECURSIVE ToLowerCase(_)
ToLowerCase(s) ==
  IF Len(s) = 0 THEN s ELSE LowerChar(CharAt(s, 1)) \o ToLowerCase(SubSeq(s, 2, Len(s)))

(***************************************************************************)
(* ContextBuilder (modules/lightrag/context-builder.ts)                    *)
(***************************************************************************)
NoScore == -1

FingerprintLength == 100

\* the estimate rounded down
estimateTokensFloor(text) == Len(text) \div 4

estimateTokens(text) == CeilDiv(Len(text), 4)

ScoreOrZero(doc) == IF doc.score = NoScore THEN 0 ELSE doc.score

RECURSIVE DedupFrom(_, _, _)
DedupFrom(documents, seenContents, uniqueDocs) ==
  IF documents = <<>> THEN uniqueDocs
  ELSE LET doc == Head(documents)
           contentFingerprint == Substring0(doc.content, FingerprintLength)
       IN  IF contentFingerprint \in seenContents
           THEN DedupFrom(Tail(documents), seenContents, uniqueDocs)
           ELSE DedupFrom(Tail(documents), seenContents \cup {contentFingerprint},
                          Append(uniqueDocs, doc))

\* insert doc in front of the elements with its score: ties are reversed
RECURSIVE InsertByScoreUnstable(_, _)
InsertByScoreUnstable(sorted, doc) ==
  IF sorted = <<>> THEN <<doc>>
  ELSE IF ScoreOrZero(Head(sorted)) > ScoreOrZero(doc)
       THEN <<Head(sorted)>> \o InsertByScoreUnstable(Tail(sorted), doc)
       ELSE <<doc>> \o sorted

\* insert doc behind every element whose score is not lower: a stable sort
RECURSIVE InsertByScore(_, _)
InsertByScore(sorted, doc) ==
  IF sorted = <<>> THEN <<doc>>
  ELSE IF ScoreOrZero(Head(sorted)) >= ScoreOrZero(doc)
       THEN <<Head(sorted)>> \o InsertByScore(Tail(sorted), doc)
       ELSE <<doc>> \o sorted

RECURSIVE SortByScoreDesc(_)
SortByScoreDesc(documents) ==
  IF documents = <<>> THEN <<>>
  ELSE InsertByScore(SortByScoreDesc(SubSeq(documents, 1, Len(documents) - 1)),
                     documents[Len(documents)])

\* Object.entries(metadata).map(([k, v]) => `${k}: ${v}`).join(', ')
RECURSIVE MetadataStr(_)
MetadataStr(metadata) ==
  IF metadata = <<>> THEN ""
  ELSE LET entry == Head(metadata)[1] \o ": " \o Head(metadata)[2]
       IN  IF Len(metadata) = 1 THEN entry
           ELSE entry \o ", " \o MetadataStr(Tail(metadata))

RECURSIVE RenderText(_, _, _, _)
RenderText(sortedDocuments, context, separator, includeMetadata) ==
  IF sortedDocuments = <<>> THEN context
  ELSE LET doc == Head(sortedDocuments)
           withSep == IF context # "" THEN context \o separator ELSE context
           metadataStr == MetadataStr(doc.metadata)
           withMeta == IF includeMetadata /\ metadataStr # ""
                       THEN withSep \o "[" \o metadataStr \o "]\n"
                       ELSE withSep
       IN  RenderText(Tail(sortedDocuments), withMeta \o doc.content,
                      separator, includeMetadata)

RECURSIVE SumTokens(_)
SumTokens(documents) ==
  IF documents = <<>> THEN 0
  ELSE estimateTokens(Head(documents).content) + SumTokens(Tail(documents))

\* the duplicates dropped after ranking, so that the best-scored one is kept
deduplicateBestScored(documents) == DedupFrom(SortByScoreDesc(documents), {}, <<>>)

deduplicateDocuments(documents) == DedupFrom(documents, {}, <<>>)

\* JSON.stringify of a string, escaped half by half
RECURSIVE JsonEscape(_)
JsonEscape(str) ==
  IF Len(str) = 0 THEN ""
  ELSE IF Len(str) = 1
  THEN IF str = "\"" THEN "\\\""
       ELSE IF str = "\\" THEN "\\\\"
       ELSE IF str = "\n" THEN "\\n"
       ELSE str
  ELSE LET half == Len(str) \div 2
       IN  JsonEscape(SubSeq(str, 1, half)) \o JsonEscape(SubSeq(str, half + 1, Len(str)))

JsonString(str) == "\"" \o JsonEscape(str) \o "\""

\* the lines of the entries of an object, at the given indentation
RECURSIVE JsonEntries(_, _)
JsonEntries(metadata, indent) ==
  IF metadata = <<>> THEN ""
  ELSE LET entry == indent \o JsonString(Head(metadata)[1]) \o ": "
                      \o JsonString(Head(metadata)[2])
       IN  IF Len(metadata) = 1 THEN entry
           ELSE entry \o ",\n" \o JsonEntries(Tail(metadata), indent)

JsonObject(metadata, indent) ==
  IF metadata = <<>> THEN "{}"
  ELSE "{\n" \o JsonEntries(metadata, indent \o "  ") \o "\n" \o indent \o "}"

\* one element of contextArray: { content, ...(includeMetadata ? { metadata } : {}) }
JsonElement(doc, includeMetadata) ==
  "  {\n    \"content\": " \o JsonString(doc.content)
    \o (IF includeMetadata
        THEN ",\n    \"metadata\": " \o JsonObject(doc.metadata, "    ")
        ELSE "")
    \o "\n  }"

RECURSIVE JsonElements(_, _)
JsonElements(sortedDocuments, includeMetadata) ==
  IF Len(sortedDocuments) = 1 THEN JsonElement(Head(sortedDocuments), includeMetadata)
  ELSE JsonElement(Head(sortedDocuments), includeMetadata) \o ",\n"
         \o JsonElements(Tail(sortedDocuments), includeMetadata)

\* JSON.stringify(contextArray, null, 2)
RenderJson(sortedDocuments, includeMetadata) ==
  IF sortedDocuments = <<>> THEN "[]"
  ELSE "[\n" \o JsonElements(sortedDocuments, includeMetadata) \o "\n]"

DefaultSeparator == "\n\n"

\* the longest prefix of the documents whose estimates fit the budget
RECURSIVE WithinBudget(_, _)
WithinBudget(documents, budget) ==
  IF documents = <<>> THEN <<>>
  ELSE IF estimateTokens(Head(documents).content) > budget THEN <<>>
  ELSE <<Head(documents)>>
         \o WithinBudget(Tail(documents),
                         budget - estimateTokens(Head(documents).content))

\* a builder that stops writing documents once maxContextLength is used up
buildContextTruncating(documents, options) ==
  LET processedDocuments ==
        IF options.deduplicate THEN deduplicateDocuments(documents) ELSE documents
      sortedDocuments == WithinBudget(SortByScoreDesc(processedDocuments),
                                      options.maxContextLength)
  IN  [context    |-> IF options.formatAsJson
                      THEN RenderJson(sortedDocuments, options.includeMetadata)
                      ELSE RenderText(sortedDocuments, "", options.separator,
                                      options.includeMetadata),
       sources    |-> sortedDocuments,
       tokenCount |-> SumTokens(sortedDocuments)]

\* options: [maxContextLength, formatAsJson, includeMetadata, separator,
\* deduplicate]
buildContext(documents, options) ==
  LET processedDocuments ==
        IF options.deduplicate THEN deduplicateDocuments(documents) ELSE documents
      sortedDocuments == SortByScoreDesc(processedDocuments)
  IN  [context    |-> IF options.formatAsJson
                      THEN RenderJson(sortedDocuments, options.includeMetadata)
                      ELSE RenderText(sortedDocuments, "", options.separator,
                                      options.includeMetadata),
       sources    |-> sortedDocuments,
       tokenCount |-> SumTokens(sortedDocuments)]

(***************************************************************************)
(* Document store (the document_vectors table and its match_documents      *)
(* function)                                                               *)
(***************************************************************************)
\* query vectors, named by a one-component vector
Embeddings == {<<1>>, <<2>>}

AllRows ==
  << [id |-> "v1", ai_instance_id |-> "inst-a", document_id |-> "d1",
      content |-> "Paris is the capital of France.",
      metadata |-> Some(<< <<"document_id", "d1">>, <<"owner_id", "u1">> >>),
      similarity |-> [e \in Embeddings |-> IF e = <<1>> THEN 95 ELSE 60]],
     [id |-> "v2", ai_instance_id |-> "inst-b", document_id |-> "d2",
      content |-> "Berlin is the capital of Germany.",
      metadata |-> None,
      similarity |-> [e \in Embeddings |-> 90]],
     [id |-> "v3", ai_instance_id |-> "inst-a", document_id |-> "d3",
      content |-> "Lyon is a city in France",
      metadata |-> Some(<< <<"owner_id", "u2">> >>),
      similarity |-> [e \in Embeddings |-> IF e = <<1>> THEN 72 ELSE 75]],
     [id |-> "v4", ai_instance_id |-> "inst-a", document_id |-> "d1",
      content |-> "Paris is the capital of France.",
      metadata |-> Some(<< <<"document_id", "d1">> >>),
      similarity |-> [e \in Embeddings |-> IF e = <<1>> THEN 80 ELSE 99]],
     [id |-> "v5", ai_instance_id |-> "inst-a", document_id |-> "d4",
      content |-> "Nice",
      metadata |-> Some(<<>>),
      similarity |-> [e \in Embeddings |-> 70]] >>

DocumentVectors == SubSeq(AllRows, 1, Min(StoreSize, Len(AllRows)))

RECURSIVE InsertBySimilarity(_, _, _)
InsertBySimilarity(sorted, row, e) ==
  IF sorted = <<>> THEN <<row>>
  ELSE IF Head(sorted).similarity[e] >= row.similarity[e]
       THEN <<Head(sorted)>> \o InsertBySimilarity(Tail(sorted), row, e)
       ELSE <<row>> \o sorted

RECURSIVE OrderBySimilarity(_, _)
OrderBySimilarity(rows, e) ==
  IF rows = <<>> THEN <<>>
  ELSE InsertBySimilarity(OrderBySimilarity(SubSeq(rows, 1, Len(rows) - 1), e),
                          rows[Len(rows)], e)

RowMatches(row, args) ==
  /\ row.ai_instance_id = args.p_ai_instance_id
  /\ row.similarity[args.query_embedding] >= args.match_threshold

RECURSIVE ToItems(_, _)
ToItems(rows, e) ==
  IF rows = <<>> THEN <<>>
  ELSE <<[id |-> Head(rows).id, content |-> Head(rows).content,
          metadata |-> Head(rows).metadata,
          similarity |-> Head(rows).similarity[e]]>> \o ToItems(Tail(rows), e)

\* the server-side similarity search:
\* search(queryVector, threshold, limit, instanceId) -> [{id, content, metadata, similarity}]
match_documents(args) ==
  LET matching == SelectSeq(DocumentVectors, LAMBDA el : RowMatches(el, args))
      ranked   == OrderBySimilarity(matching, args.query_embedding)
  IN  ToItems(SubSeq(ranked, 1, Min(args.match_count, Len(ranked))),
              args.query_embedding)

(***************************************************************************)
(* SupabaseRetriever (modules/lightrag/retriever.ts)                       *)
(***************************************************************************)
\* metadata[key], <<>> when the key is absent
RECURSIVE Lookup(_, _)
Lookup(metadata, key) ==
  IF metadata = <<>> THEN None
  ELSE IF Head(metadata)[1] = key THEN Some(Head(metadata)[2])
       ELSE Lookup(Tail(metadata), key)

FilterKeyHolds(doc, entry) ==
  LET key == entry[1]
      value == entry[2]
  IN  IF key = "documentId" THEN Lookup(doc.metadata, "document_id") = Some(value)
      ELSE IF key = "owner_id" THEN Lookup(doc.metadata, "owner_id") = Some(value)
      ELSE Lookup(doc.metadata, key) = Some(value)

\* a filter that one matching key satisfies
PassesFilterSomeKey(doc, filter) ==
  \E i \in 1..Len(filter) : FilterKeyHolds(doc, filter[i])

PassesFilter(doc, filter) ==
  \A i \in 1..Len(filter) : FilterKeyHolds(doc, filter[i])

RECURSIVE ItemsToDocuments(_)
ItemsToDocuments(data) ==
  IF data = <<>> THEN <<>>
  ELSE <<[id |-> Head(data).id, content |-> Head(data).content,
          metadata |-> Nullish(Head(data).metadata, <<>>),
          score |-> Head(data).similarity]>> \o ItemsToDocuments(Tail(data))

MissingFunctionText == "function \"match_documents\" does not exist"

FallbackScore == 75

\* .contains('metadata', { [key]: value }) for every entry of filter.metadata
MetadataContains(row, options) ==
  Lookup(options.filter, "metadata") # None =>
    \A i \in 1..Len(Lookup(options.filter, "metadata")[1]) :
      Lookup(Nullish(row.metadata, <<>>),
             Lookup(options.filter, "metadata")[1][i][1])
        = Some(Lookup(options.filter, "metadata")[1][i][2])

\* the fallback query without its .eq('ai_instance_id', ...) clause
FallbackRowMatchesAnyInstance(row, options) ==
  /\ Lookup(options.filter, "documentId") # None
       => OrStr(Lookup(options.filter, "documentId"), "") \in {"", row.document_id}
  /\ MetadataContains(row, options)

\* the rows the fallback query selects: .eq('ai_instance_id', ...), when
\* the filter names a document .eq('document_id', ...), and when it has a
\* metadata entry one .contains per key of it
FallbackRowMatches(row, options) ==
  /\ row.ai_instance_id = options.aiInstanceId
  /\ Lookup(options.filter, "documentId") # None
       => OrStr(Lookup(options.filter, "documentId"), "") \in {"", row.document_id}
  /\ MetadataContains(row, options)

RECURSIVE RowsToFallbackDocuments(_)
RowsToFallbackDocuments(data) ==
  IF data = <<>> THEN <<>>
  ELSE <<[id |-> Head(data).id, content |-> Head(data).content,
          metadata |-> Nullish(Head(data).metadata, <<>>),
          score |-> FallbackScore]>> \o RowsToFallbackDocuments(Tail(data))

\* the local threshold filter letting every scored document through
ScoreIsNumber(doc, threshold) == doc.score # NoScore

ScoreAtLeast(doc, threshold) == doc.score # NoScore /\ doc.score >= threshold

RECURSIVE RowsToRankedDocuments(_, _)
RowsToRankedDocuments(data, embedding) ==
  IF data = <<>> THEN <<>>
  ELSE <<[id |-> Head(data).id, content |-> Head(data).content,
          metadata |-> Nullish(Head(data).metadata, <<>>),
          score |-> Head(data).similarity[embedding]]>>
         \o RowsToRankedDocuments(Tail(data), embedding)

\* a fallback scoring every row by its similarity to the query vector
retrieveDocumentsFallbackRanked(embedding, options, store) ==
  IF store.kind # "ok"
  THEN [ok |-> FALSE,
        message |-> "Failed to retrieve documents with fallback method: "
                      \o (IF store.kind = "error"
                          THEN "Failed to retrieve documents: " \o store.message
                          ELSE store.message),
        documents |-> <<>>, totalFound |-> 0]
  ELSE LET selected  == SelectSeq(DocumentVectors, LAMBDA el : FallbackRowMatches(el, options))
           data      == SubSeq(selected, 1, Min(options.maxChunks, Len(selected)))
           documents == RowsToRankedDocuments(data, embedding)
           filteredDocuments ==
             SelectSeq(documents, LAMBDA el : ScoreAtLeast(el, options.similarityThreshold))
       IN  [ok |-> TRUE, message |-> "",
            documents |-> filteredDocuments, totalFound |-> Len(documents)]

\* store: [kind: "ok" | "error" | "throws", message]
retrieveDocumentsFallback(embedding, options, store) ==
  IF store.kind # "ok"
  THEN [ok |-> FALSE,
        message |-> "Failed to retrieve documents with fallback method: "
                      \o (IF store.kind = "error"
                          THEN "Failed to retrieve documents: " \o store.message
                          ELSE store.message),
        documents |-> <<>>, totalFound |-> 0]
  ELSE LET selected  == SelectSeq(DocumentVectors, LAMBDA el : FallbackRowMatches(el, options))
           data      == SubSeq(selected, 1, Min(options.maxChunks, Len(selected)))
           documents == RowsToFallbackDocuments(data)
           filteredDocuments ==
             SelectSeq(documents, LAMBDA el : ScoreAtLeast(el, options.similarityThreshold))
       IN  [ok |-> TRUE, message |-> "",
            documents |-> filteredDocuments, totalFound |-> Len(documents)]

\* the arguments of supabase.rpc('match_documents', ...)
MatchDocumentsArgs(embedding, options) ==
  [query_embedding  |-> embedding,
   match_threshold  |-> options.similarityThreshold,
   match_count      |-> options.maxChunks,
   p_ai_instance_id |-> options.aiInstanceId]

\* the catch taking every error of the primary search to the fallback query
IsAnyError(message) == TRUE

\* error.message.includes('function "match_documents" does not exist')
IsMissingFunction(message) == Includes(message, MissingFunctionText)

\* rpc: [kind: "ok" | "null" | "error" | "throws", message]; the answer of the
\* primary search; store: the answer of the fallback query, should it run
retrieveDocuments(embedding, options, rpc, store) ==
  LET thrown == IF rpc.kind = "error"
                THEN "Failed to retrieve documents: " \o rpc.message
                ELSE rpc.message
  IN  IF rpc.kind \in {"error", "throws"}
      THEN IF IsMissingFunction(thrown)
           THEN retrieveDocumentsFallback(embedding, options, store)
                  @@ [primaryCalls |-> 1, fallbackCalls |-> 1]
           ELSE [ok |-> FALSE,
                 message |-> "Failed to retrieve documents: " \o thrown,
                 documents |-> <<>>, totalFound |-> 0,
                 primaryCalls |-> 1, fallbackCalls |-> 0]
      ELSE LET data == IF rpc.kind = "null" THEN <<>>
                       ELSE match_documents(MatchDocumentsArgs(embedding, options))
               documents == ItemsToDocuments(data)
               filtered  == IF Len(options.filter) > 0
                            THEN SelectSeq(documents, LAMBDA el : PassesFilter(el, options.filter))
                            ELSE documents
           IN  [ok |-> TRUE, message |-> "",
                documents |-> filtered, totalFound |-> Len(data),
                primaryCalls |-> 1, fallbackCalls |-> 0]

\* LightRAG.generateContext: retrieve, then build
generateContext(embedding, options, contextOptions, rpc, store) ==
  LET retrievalResult == retrieveDocuments(embedding, options, rpc, store)
  IN  IF retrievalResult.ok
      THEN [ok |-> TRUE, message |-> "",
            contextResult |-> buildContext(retrievalResult.documents, contextOptions),
            primaryCalls |-> retrievalResult.primaryCalls,
            fallbackCalls |-> retrievalResult.fallbackCalls]
      ELSE [ok |-> FALSE, message |-> retrievalResult.message,
            contextResult |-> [context |-> "", sources |-> <<>>, tokenCount |-> 0],
            primaryCalls |-> retrievalResult.primaryCalls,
            fallbackCalls |-> retrievalResult.fallbackCalls]

(***************************************************************************)
(* BraveSearchProvider (context/providers/brave.ts)                        *)
(***************************************************************************)
Digits == "0123456789"

RECURSIVE NatToStr(_)
\* Number.prototype.toString and template interpolation of a natural number
NatToStr(n) ==
  IF n < 10 THEN CharAt(Digits, n + 1)
  ELSE NatToStr(n \div 10) \o CharAt(Digits, (n % 10) + 1)

\* the i-th entry of a Brave API answer
ApiResult(i) ==
  [title |-> "Title " \o NatToStr(i),
   url |-> "https://example.org/" \o NatToStr(i),
   description |-> "Snippet " \o NatToStr(i),
   updated |-> IF i % 2 = 0 THEN Some("2024-01-0" \o NatToStr(i)) ELSE None,
   extra_snippets |-> IF i % 2 = 0 THEN <<"more", "text">> ELSE <<>>]

ApiResults(n) == [i \in 1..n |-> ApiResult(i)]

RECURSIVE JoinWith(_, _)
\* Array.prototype.join
JoinWith(parts, sep) ==
  IF parts = <<>> THEN ""
  ELSE IF Len(parts) = 1 THEN parts[1]
       ELSE parts[1] \o sep \o JoinWith(Tail(parts), sep)

getMockResults(query, maxResults) ==
  LET mockSources ==
        << [id |-> "web-1",
            content |-> "Search result about " \o query \o ".",
            metadata |-> [source |-> "web",
                          url |-> "https://example.com/search-result-1",
                          title |-> "Information about " \o query]],
           [id |-> "web-2",
            content |-> "Additional information related to " \o query
                          \o " from another source.",
            metadata |-> [source |-> "web",
                          url |-> "https://example.com/search-result-2",
                          title |-> "More about " \o query]] >>
      mockContext ==
        Trim("\nFrom web search:\n\nSource 1: Information about " \o query
             \o "\nURL: https://example.com/search-result-1\nSearch result about "
             \o query \o ".\n\nSource 2: More about " \o query
             \o "\nURL: https://example.com/search-result-2\n"
             \o "Additional information related to " \o query
             \o " from another source.\n    ")
  IN  [context |-> mockContext,
       sources |-> SubSeq(mockSources, 1, Min(maxResults, 2)),
       tokenCount |-> CeilDiv(Len(mockContext), 4)]

RECURSIVE WebPart(_, _)
\* the forEach over data.web.results, from index i on
WebPart(results, i) ==
  IF i > Len(results) THEN [text |-> "", sources |-> <<>>]
  ELSE LET result == results[i]
           rest == WebPart(results, i + 1)
       IN  [text |-> "Source " \o NatToStr(i) \o ": " \o result.title \o "\n"
                       \o "URL: " \o result.url \o "\n"
                       \o result.description \o "\n"
                       \o (IF Len(result.extra_snippets) > 0
                           THEN "Additional information: "
                                  \o JoinWith(result.extra_snippets, " ") \o "\n"
                           ELSE "")
                       \o "\n" \o rest.text,
            sources |-> <<[id |-> "web-" \o NatToStr(i),
                           content |-> result.description,
                           metadata |-> [source |-> "web", url |-> result.url,
                                         title |-> result.title]]>>
                          \o rest.sources]

RECURSIVE NewsPart(_, _)
\* the forEach over data.news.results, from index i on
NewsPart(results, i) ==
  IF i > Len(results) THEN [text |-> "", sources |-> <<>>]
  ELSE LET result == results[i]
           rest == NewsPart(results, i + 1)
       IN  [text |-> "Source " \o NatToStr(i) \o ": " \o result.title \o "\n"
                       \o "URL: " \o result.url \o "\n"
                       \o (IF OrStr(result.updated, "") # ""
                           THEN "Date: " \o result.updated[1] \o "\n" ELSE "")
                       \o result.description \o "\n\n" \o rest.text,
            sources |-> <<[id |-> "news-" \o NatToStr(i),
                           content |-> result.description,
                           metadata |-> [source |-> "news", url |-> result.url,
                                         title |-> result.title,
                                         date |-> result.updated]]>>
                          \o rest.sources]

DefaultMaxResults == 5

MockMaxResults == 3

\* apiKey: is BRAVE_SEARCH_API_KEY set; api: the answer of the HTTP call,
\* [kind: "ok" | "http_error" | "throws", web, news] with web and news optional
BraveGetContext(query, options, apiKey, api) ==
  LET maxResults == OrNum(options.maxResults, DefaultMaxResults)
  IN  IF ~apiKey THEN getMockResults(query, maxResults)
      ELSE IF api.kind # "ok" THEN getMockResults(query, MockMaxResults)
      ELSE LET web  == IF Len(Nullish(api.web, <<>>)) > 0
                       THEN WebPart(api.web[1], 1)
                       ELSE [text |-> "", sources |-> <<>>]
               news == IF Len(Nullish(api.news, <<>>)) > 0
                       THEN NewsPart(api.news[1], 1)
                       ELSE [text |-> "", sources |-> <<>>]
               sources == web.sources \o news.sources
               built == (IF web.sources # <<>> THEN "From web search:\n\n" \o web.text
                         ELSE "")
                        \o (IF news.sources # <<>> THEN "News results:\n\n" \o news.text
                            ELSE "")
               contextString ==
                 IF Len(sources) = 0
                 THEN "No search results found for: \"" \o query \o "\""
                 ELSE built
           IN  [context |-> contextString,
                sources |-> sources,
                tokenCount |-> CeilDiv(Len(contextString), 4)]

(***************************************************************************)
(* LightRAGContextProvider.summarizeWebResults and the usage ledger        *)
(* (context/providers/lightrag.ts)                                         *)
(***************************************************************************)
CitationNote ==
  "\n\n(This information is from web search results and may not be fully accurate. Refer to the original sources for verification.)"

SummaryFailedText == "Unable to summarize web search results due to an error."

ZeroUsage == [contextTokens |-> 0, completionTokens |-> 0, totalTokens |-> 0]

\* response: the answer of routeModelCall,
\* [kind: "returns" | "throws", success, content, usage] with content and
\* usage optional, and each field of usage optional
summarizeWebResults(searchContext, aiInstanceId, response) ==
  IF response.kind = "throws" \/ ~response.success \/ OrStr(response.content, "") = ""
  THEN [summary |-> SummaryFailedText, tokenUsage |-> ZeroUsage]
  ELSE [summary |-> response.content[1] \o CitationNote,
        tokenUsage |->
          IF response.usage = None THEN ZeroUsage
          ELSE [contextTokens    |-> OrNum(response.usage[1].contextTokens, 0),
                completionTokens |-> OrNum(response.usage[1].completionTokens, 0),
                totalTokens      |-> OrNum(response.usage[1].totalTokens, 0)]]

SummarizationModel == "claude-3-haiku-20240307"

\* the tracking without its try/catch: an insert that throws reaches the caller
trackSummarizationUsageUncaught(aiInstanceId, tokenUsage, insert) ==
  [threw   |-> insert = "throws",
   records |-> IF insert = "ok"
               THEN <<[ai_instance_id |-> aiInstanceId, provider |-> "fireworks",
                       model |-> SummarizationModel,
                       operation_type |-> "summarization",
                       input_tokens |-> tokenUsage.contextTokens,
                       output_tokens |-> tokenUsage.completionTokens,
                       total_tokens |-> tokenUsage.totalTokens]>>
               ELSE <<>>]

\* a record with the input and the output tokens exchanged
trackSummarizationUsageSwapped(aiInstanceId, tokenUsage, insert) ==
  [threw   |-> FALSE,
   records |-> IF insert = "ok"
               THEN <<[ai_instance_id |-> aiInstanceId, provider |-> "fireworks",
                       model |-> SummarizationModel,
                       operation_type |-> "summarization",
                       input_tokens |-> tokenUsage.completionTokens,
                       output_tokens |-> tokenUsage.contextTokens,
                       total_tokens |-> tokenUsage.totalTokens]>>
               ELSE <<>>]

\* insert: the answer of the usage_logs insert, "ok" | "error" | "throws";
\* the records the ledger gains, and whether the call threw (the catch of
\* lines 169-171 logs every error)
trackSummarizationUsage(aiInstanceId, tokenUsage, insert) ==
  [threw   |-> FALSE,
   records |-> IF insert = "ok"
               THEN <<[ai_instance_id |-> aiInstanceId, provider |-> "fireworks",
                       model |-> SummarizationModel,
                       operation_type |-> "summarization",
                       input_tokens |-> tokenUsage.contextTokens,
                       output_tokens |-> tokenUsage.completionTokens,
                       total_tokens |-> tokenUsage.totalTokens]>>
               ELSE <<>>]

(***************************************************************************)
(* Embedding providers (modules/lightrag/embedder.ts)                      *)
(***************************************************************************)
\* the record written with the count in output_tokens as well
trackEmbeddingUsageOutputTokens(aiInstanceId, provider, modelId, tokenCount, supabaseEnv, insert) ==
  [writes  |-> IF supabaseEnv THEN 1 ELSE 0,
   threw   |-> FALSE,
   records |-> IF supabaseEnv /\ insert = "ok"
               THEN <<[ai_instance_id |-> aiInstanceId, provider |-> provider,
                       model |-> modelId, operation_type |-> "embedding",
                       input_tokens |-> tokenCount, output_tokens |-> tokenCount,
                       total_tokens |-> 2 * tokenCount]>>
               ELSE <<>>]

\* supabaseEnv: are SUPABASE_URL and SUPABASE_SERVICE_ROLE_KEY set; writes:
\* the inserts attempted; threw: the catch of lines 57-59 logs every error
trackEmbeddingUsage(aiInstanceId, provider, modelId, tokenCount, supabaseEnv, insert) ==
  [writes  |-> IF supabaseEnv THEN 1 ELSE 0,
   threw   |-> FALSE,
   records |-> IF supabaseEnv /\ insert = "ok"
               THEN <<[ai_instance_id |-> aiInstanceId, provider |-> provider,
                       model |-> modelId, operation_type |-> "embedding",
                       input_tokens |-> tokenCount, output_tokens |-> 0,
                       total_tokens |-> tokenCount]>>
               ELSE <<>>]

NoTracking == [writes |-> 0, threw |-> FALSE, records |-> <<>>]

\* the failure reached after the backend call was made a second time
EmbeddingFailureRetried(message, backendCalls) ==
  [ok |-> FALSE, message |-> message, embedding |-> <<>>, tokenCount |-> 0,
   backendCalls |-> 2 * backendCalls, writes |-> 0, records |-> <<>>]

\* the catch of generateEmbedding: the error, rethrown with a prefix
EmbeddingFailure(message, backendCalls) ==
  [ok |-> FALSE, message |-> message, embedding |-> <<>>, tokenCount |-> 0,
   backendCalls |-> backendCalls, writes |-> 0, records |-> <<>>]

\* embedder: [kind, modelId, credentials, trackUsage];
\* fetch: the answer of the embeddings endpoint,
\* [kind: "ok" | "http_error" | "throws", embedding, usage] with both optional
FireworksGenerateEmbedding(embedder, text, aiInstanceId, fetch, supabaseEnv, insert) ==
  LET prefix == "Failed to generate embedding with Fireworks: "
      estimatedTokenCount == CeilDiv(Len(text), 4)
  IN  IF ~embedder.credentials
      THEN EmbeddingFailure(
             prefix \o "Fireworks API key is required for embedding generation", 0)
      ELSE IF fetch.kind = "throws"
      THEN EmbeddingFailure(prefix \o "fetch failed", 1)
      ELSE IF fetch.kind = "http_error"
      THEN EmbeddingFailure(prefix \o "Fireworks API error: 500 - {}", 1)
      ELSE IF fetch.embedding = None
      THEN EmbeddingFailure(prefix \o "Invalid embedding response from Fireworks API", 1)
      ELSE LET tokenCount == OrNum(fetch.usage, estimatedTokenCount)
               tracked == IF embedder.trackUsage /\ OrStr(aiInstanceId, "") # ""
                          THEN trackEmbeddingUsage(aiInstanceId[1], "fireworks",
                                 embedder.modelId, tokenCount, supabaseEnv, insert)
                          ELSE NoTracking
           IN  IF tracked.threw
               THEN EmbeddingFailure(prefix \o "insert failed", 1)
               ELSE [ok |-> TRUE, message |-> "", embedding |-> fetch.embedding[1],
                     tokenCount |-> tokenCount, backendCalls |-> 1,
                     writes |-> tracked.writes, records |-> tracked.records]

\* the placeholder vector, seeded by the length of the text
MockEmbedding(text) == <<1 + (Len(text) % 2)>>

BedrockGenerateEmbedding(embedder, text, aiInstanceId, supabaseEnv, insert) ==
  LET prefix == "Failed to generate embedding with Bedrock: "
      estimatedTokenCount == CeilDiv(Len(text), 4)
  IN  IF ~embedder.credentials
      THEN EmbeddingFailure(
             prefix \o "AWS credentials are required for Bedrock embedding generation", 0)
      ELSE LET tracked == IF embedder.trackUsage /\ OrStr(aiInstanceId, "") # ""
                          THEN trackEmbeddingUsage(aiInstanceId[1], "bedrock",
                                 embedder.modelId, estimatedTokenCount, supabaseEnv, insert)
                          ELSE NoTracking
           IN  IF tracked.threw
               THEN EmbeddingFailure(prefix \o "insert failed", 0)
               ELSE [ok |-> TRUE, message |-> "", embedding |-> MockEmbedding(text),
                     tokenCount |-> estimatedTokenCount, backendCalls |-> 0,
                     writes |-> tracked.writes, records |-> tracked.records]

\* env: which credentials the process environment holds
createEmbeddingProvider(provider, modelId, config, env) ==
  LET providerName == OrStr(Some(ToLowerCase(provider)), "fireworks")
  IN  IF providerName = "bedrock"
      THEN [kind |-> "bedrock",
            modelId |-> Nullish(modelId, "amazon.titan-embed-text-v1"),
            credentials |-> env.aws,
            trackUsage |-> Nullish(config.trackUsage, TRUE)]
      ELSE [kind |-> "fireworks",
            modelId |-> OrStr(modelId, "deepseek-v3"),
            credentials |-> env.fireworks,
            trackUsage |-> Nullish(config.trackUsage, TRUE)]

generateEmbedding(embedder, text, aiInstanceId, fetch, supabaseEnv, insert) ==
  IF embedder.kind = "bedrock"
  THEN BedrockGenerateEmbedding(embedder, text, aiInstanceId, supabaseEnv, insert)
  ELSE FireworksGenerateEmbedding(embedder, text, aiInstanceId, fetch, supabaseEnv, insert)

(***************************************************************************)
(* LightRAGContextProvider.getContext (context/providers/lightrag.ts)      *)
(***************************************************************************)
EmptyResult == [context |-> "", sources |-> <<>>, tokenCount |-> 0]

DiagnosticPrefix ==
  "Unable to retrieve contextual information from documents at this time. The RAG system encountered an error: "

\* the outer catch as a handler that logs and rethrows
OuterCatchRethrows(message) == [threw |-> TRUE, result |-> None]

\* the outer catch with the estimate rounded down
OuterCatchFloor(message) ==
  LET errorMessage == Trim("\n" \o DiagnosticPrefix \o message \o "\n      ")
  IN  [threw |-> FALSE,
       result |-> Some([context |-> errorMessage,
                        sources |-> <<>>,
                        tokenCount |-> Len(errorMessage) \div 4])]

\* the outer catch: the error becomes the text of the context
OuterCatch(message) ==
  LET errorMessage == Trim("\n" \o DiagnosticPrefix \o message \o "\n      ")
  IN  [threw |-> FALSE,
       result |-> Some([context |-> errorMessage,
                        sources |-> <<>>,
                        tokenCount |-> CeilDiv(Len(errorMessage), 4)])]

Returns(contextResult) == [threw |-> FALSE, result |-> Some(contextResult)]

DefaultMaxChunks == 5

DefaultSimilarityThreshold == 70

DefaultMaxTokens == 4000

\* the fallback switched on whatever the configuration row says
EnableFallbackAlways(ragConfig, options) == TRUE

\* const enableFallbackSearch = ragConfig?.enable_fallback_search ?? true
EnableFallbackSearch(ragConfig, options) ==
  IF ragConfig = None THEN TRUE
  ELSE Nullish(ragConfig[1].enable_fallback_search, TRUE)

\* the values the invocation runs with, from the configuration row (if any),
\* the caller's options and the defaults
ResolveSettings(ragConfig, options) ==
  LET row == IF ragConfig = None THEN [c \in {} |-> None] ELSE ragConfig[1]
      Col(c) == IF ragConfig = None THEN None ELSE row[c]
  IN  [embeddingProvider   |-> OrStr(Col("embedding_provider"),
                                     OrStr(options.embeddingProvider, "fireworks")),
       embeddingModel      |-> OrStr(Col("embedding_model_id"),
                                     OrStr(options.embeddingModel, "deepseek-v3")),
       maxChunks           |-> OrNum(Col("max_chunks"),
                                     OrNum(options.maxChunks, DefaultMaxChunks)),
       similarityThreshold |-> OrNum(Col("similarity_threshold"),
                                     OrNum(options.similarityThreshold,
                                           DefaultSimilarityThreshold)),
       maxTokens           |-> OrNum(options.maxTokens, DefaultMaxTokens),
       enableDeduplication |-> Nullish(Col("enable_deduplication"), TRUE),
       trackTokenUsage     |-> Nullish(Col("track_token_usage"), TRUE),
       enableFallbackSearch |-> EnableFallbackSearch(ragConfig, options)]

RetrievalOptionsOf(settings, options) ==
  [aiInstanceId |-> options.aiInstanceId[1],
   maxChunks |-> settings.maxChunks,
   similarityThreshold |-> settings.similarityThreshold,
   filter |-> Nullish(options.filter, <<>>)]

ContextOptionsOf(settings) ==
  [maxContextLength |-> settings.maxTokens,
   formatAsJson |-> FALSE,
   includeMetadata |-> TRUE,
   separator |-> DefaultSeparator,
   deduplicate |-> settings.enableDeduplication]

\* a hit only from the second source on
IsHitAboveOne(contextResult) == Len(contextResult.sources) > 1

\* "If we have results, return them"
IsHit(contextResult) == Len(contextResult.sources) > 0

\* any answer of the web search taken as text to summarize
HasSearchAnswer(braveSearchResult) == TRUE

\* "If we got search results, summarize them"
HasSearchContent(braveSearchResult) == braveSearchResult.context # ""

\* the error of the web search left to the outer catch
AfterSearchErrorOuter(contextResult) ==
  [threw |-> FALSE,
   result |-> Some([context |-> DiagnosticPrefix \o "Failed to connect to search API",
                    sources |-> <<>>,
                    tokenCount |-> CeilDiv(Len(DiagnosticPrefix
                                     \o "Failed to connect to search API"), 4)])]

\* the catch around the fallback search leads to the final return
AfterSearchError(contextResult) == Returns(contextResult)

\* the summarized result carrying the token estimate of the raw search text
SummarizedResultSearchTokens(summary, tokenUsage, braveSearchResult) ==
  [context |-> summary,
   sources |-> braveSearchResult.sources,
   tokenCount |-> braveSearchResult.tokenCount]

\* "Return the summarized context with sources"
SummarizedResult(summary, tokenUsage, braveSearchResult) ==
  [context |-> summary,
   sources |-> braveSearchResult.sources,
   tokenCount |-> tokenUsage.totalTokens]

(***************************************************************************)
(* Inputs and answers of the collaborators                                 *)
(***************************************************************************)
Queries == {"What is Paris?", "Lyon"}

NoOptions ==
  [aiInstanceId |-> None, enableFallbackSearch |-> None, maxChunks |-> None,
   similarityThreshold |-> None, filter |-> None, maxTokens |-> None,
   embeddingProvider |-> None, embeddingModel |-> None]

CallerOptions ==
  { [NoOptions EXCEPT !.aiInstanceId = inst, !.enableFallbackSearch = fb] :
       inst \in {Some(""), Some("inst-a"), Some("inst-b")},
       fb \in {None, Some(TRUE), Some(FALSE)} }
    \cup
  { [NoOptions EXCEPT !.aiInstanceId = Some("inst-a"), !.maxChunks = Some(1),
                      !.similarityThreshold = Some(50)],
    [NoOptions EXCEPT !.aiInstanceId = Some("inst-a"), !.maxChunks = Some(2),
                      !.similarityThreshold = Some(0)],
    [NoOptions EXCEPT !.aiInstanceId = Some("inst-a"),
                      !.filter = Some(<< <<"documentId", "d1">> >>)] }

\* which credentials the process environment holds
Environments ==
  { [supabase |-> TRUE,  brave |-> TRUE,  fireworks |-> TRUE,  aws |-> TRUE,
      openrouter |-> TRUE],
    [supabase |-> FALSE, brave |-> TRUE,  fireworks |-> TRUE,  aws |-> TRUE,
      openrouter |-> TRUE],
    [supabase |-> TRUE,  brave |-> FALSE, fireworks |-> FALSE, aws |-> FALSE,
      openrouter |-> FALSE] }

NullRow ==
  [embedding_provider |-> None, embedding_model_id |-> None,
   max_chunks |-> None, similarity_threshold |-> None,
   enable_deduplication |-> None, track_token_usage |-> None,
   enable_fallback_search |-> None]

ConfigRows ==
  { NullRow,
    [NullRow EXCEPT !.enable_fallback_search = Some(FALSE)],
    [NullRow EXCEPT !.enable_fallback_search = Some(FALSE),
                    !.similarity_threshold = Some(99)],
    [NullRow EXCEPT !.enable_fallback_search = Some(TRUE),
                    !.similarity_threshold = Some(99),
                    !.embedding_provider = Some("Bedrock"),
                    !.track_token_usage = Some(FALSE),
                    !.enable_deduplication = Some(FALSE)],
    [NullRow EXCEPT !.similarity_threshold = Some(0), !.max_chunks = Some(2)] }

ConfigAnswers ==
  {[kind |-> "throws", row |-> None], [kind |-> "error", row |-> None]}
    \cup {[kind |-> "row", row |-> Some(r)] : r \in ConfigRows}

InsertAnswers == {"ok", "error", "throws"}

FetchAnswers ==
  {[kind |-> "throws", embedding |-> None, usage |-> None],
   [kind |-> "http_error", embedding |-> None, usage |-> None],
   [kind |-> "ok", embedding |-> None, usage |-> None],
   [kind |-> "ok", embedding |-> Some(<<1>>), usage |-> None],
   [kind |-> "ok", embedding |-> Some(<<2>>), usage |-> Some(MaxUsage)],
   [kind |-> "ok", embedding |-> Some(<<2>>), usage |-> Some(0)]}

RpcAnswers ==
  {[kind |-> "ok", message |-> ""],
   [kind |-> "null", message |-> ""],
   [kind |-> "error", message |-> MissingFunctionText],
   [kind |-> "error", message |-> "permission denied"],
   [kind |-> "throws", message |-> "fetch failed"],
   [kind |-> "throws",
    message |-> "42883: " \o MissingFunctionText \o " in schema public"]}

StoreAnswers ==
  {[kind |-> "ok", message |-> ""],
   [kind |-> "error", message |-> "column does not exist"]}

BraveApiAnswers ==
  {[kind |-> "throws", web |-> None, news |-> None],
   [kind |-> "http_error", web |-> None, news |-> None],
   [kind |-> "ok", web |-> None, news |-> None]}
    \cup {[kind |-> "ok", web |-> Some(ApiResults(n)), news |-> Some(ApiResults(m))] :
            n \in 0..MaxWebResults, m \in 0..1}

\* the web search is a collaborator: the Brave provider, or a substitute that
\* throws or answers without text
WebSearchAnswers ==
  {[kind |-> "throws", api |-> [kind |-> "throws", web |-> None, news |-> None]],
   [kind |-> "empty",  api |-> [kind |-> "throws", web |-> None, news |-> None]]}
    \cup {[kind |-> "brave", api |-> a] : a \in BraveApiAnswers}

UsageFields == {None} \cup {Some(n) : n \in {0, MaxUsage}}

ModelResponses ==
  {[kind |-> "throws", success |-> FALSE, content |-> None, usage |-> None],
   [kind |-> "returns", success |-> FALSE, content |-> None, usage |-> None],
   [kind |-> "returns", success |-> TRUE, content |-> Some(""),
    usage |-> Some([contextTokens |-> Some(1), completionTokens |-> Some(0),
                    totalTokens |-> Some(1)])],
   [kind |-> "returns", success |-> TRUE, content |-> Some("Paris is a city."),
    usage |-> None]}
    \cup {[kind |-> "returns", success |-> TRUE, content |-> Some("Paris is a city."),
           usage |-> Some([contextTokens |-> t, completionTokens |-> Some(1),
                           totalTokens |-> t])] : t \in UsageFields}

(***************************************************************************)
(* State                                                                   *)
(***************************************************************************)
VARIABLES
  pc,                 \* where the invocation stands
  env,                \* the credentials of the process environment
  query, options,     \* the arguments of getContext
  ragConfig,          \* the configuration row, if one was found
  settings,           \* the resolved values of lines 208-216
  embedding,          \* the query vector
  retrievalOptions,   \* the options handed to lightrag.generateContext
  contextResult,      \* what generateContext returned
  braveSearchResult,  \* what the web search returned
  response,           \* what routeModelCall answered
  summarized,         \* what summarizeWebResults returned
  result, threw,      \* how getContext ended
  calls,              \* calls of each collaborator, in this invocation
  webSearchArg,       \* the query handed to the web search
  outcome,            \* how each stage ended
  ledger,             \* the usage_logs table
  direct,             \* the last call made to a component on its own
  handler,            \* the context request handleContextRequest is serving
  router,             \* the model router: its module-scoped clients and calls
  stdio               \* the stdio interface: its buffer, handlers and output

vars == <<pc, env, query, options, ragConfig, settings, embedding,
          retrievalOptions, contextResult,
          braveSearchResult, response, summarized, result, threw, calls,
          webSearchArg, outcome, ledger, direct, handler, router, stdio>>

NoCalls == [config |-> 0, embed |-> 0, backend |-> 0, retrieve |-> 0,
            primary |-> 0, fallbackQuery |-> 0, webSearch |-> 0,
            summarize |-> 0, ledgerWrites |-> 0]

NoDirect == [op |-> "none", input |-> <<>>, output |-> <<>>]

\* no context request was received yet
NoHandler ==
  [pc |-> "idle", payload |-> None, enabledProviders |-> <<>>, pending |-> {},
   answers |-> <<>>, results |-> <<>>, completed |-> <<>>, response |-> None]

NoOutcome == [config |-> "none", embed |-> "none", retrieve |-> "none",
              webSearch |-> "none", summarize |-> "none", track |-> "none"]

Init ==
  /\ pc = "idle"
  /\ env \in Environments
  /\ query = "" /\ options = None
  /\ ragConfig = None /\ settings = None
  /\ embedding = None /\ retrievalOptions = None /\ contextResult = None
  /\ braveSearchResult = None /\ response = None /\ summarized = None
  /\ result = None /\ threw = FALSE
  /\ calls = NoCalls
  /\ webSearchArg = None
  /\ outcome = NoOutcome
  /\ ledger = <<>>
  /\ direct = NoDirect
  /\ handler = NoHandler
  /\ router = [bedrockClient |-> None, openaiClient |-> None, calls |-> <<>>]
  /\ stdio = [buffer |-> <<>>, awaiting |-> {}, stdout |-> <<>>, lines |-> <<>>,
              dispatched |-> <<>>, events |-> 0]

\* an ending that keeps the result and leaves the invocation where it stands
FinishPending(end) ==
  /\ pc' = pc
  /\ threw' = end.threw
  /\ result' = end.result

\* getContext ends with the given [threw, result]
Finish(end) ==
  /\ pc' = "done"
  /\ threw' = end.threw
  /\ result' = end.result

\* getContext is called: validation, then the configuration lookup starts
Invoke(q, opts) ==
  /\ pc = "idle"
  /\ query' = q /\ options' = Some(opts)
  /\ IF OrStr(opts.aiInstanceId, "") = ""
     THEN /\ Finish(OuterCatch("aiInstanceId is required"))
          /\ UNCHANGED calls
     ELSE IF ~env.supabase
     THEN /\ Finish(OuterCatch("supabaseUrl is required."))
          /\ UNCHANGED calls
     ELSE /\ pc' = "config"
          /\ calls' = [calls EXCEPT !.config = 1]
          /\ UNCHANGED <<result, threw>>
  /\ UNCHANGED <<env, ragConfig, settings, embedding, contextResult,
                 braveSearchResult, response, summarized, webSearchArg,
                 outcome, ledger>>
  /\ UNCHANGED <<direct, retrievalOptions, handler, router, stdio>>

\* the configuration lookup answers; the embedding call starts
LoadConfig(answer) ==
  /\ pc = "config"
  /\ IF answer.kind = "throws"
     THEN /\ Finish(OuterCatch("fetch failed"))
          /\ outcome' = [outcome EXCEPT !.config = "threw"]
          /\ UNCHANGED <<ragConfig, settings, calls>>
     ELSE /\ ragConfig' = answer.row
          /\ settings' = Some(ResolveSettings(answer.row, options[1]))
          /\ outcome' = [outcome EXCEPT
                           !.config = IF answer.kind = "row" THEN "row" ELSE "norow"]
          /\ pc' = "embed"
          /\ calls' = [calls EXCEPT !.embed = 1]
          /\ UNCHANGED <<result, threw>>
  /\ UNCHANGED <<env, query, options, embedding, contextResult,
                 braveSearchResult, response, summarized, webSearchArg, ledger>>
  /\ UNCHANGED <<direct, retrievalOptions, handler, router, stdio>>

\* provider.generateEmbedding ends; the retrieval starts
Embed(fetch, insert) ==
  /\ pc = "embed"
  /\ LET provider == createEmbeddingProvider(settings[1].embeddingProvider,
                                             Some(settings[1].embeddingModel),
                                             [trackUsage |-> Some(TRUE)], env)
         r == generateEmbedding(provider, query, options[1].aiInstanceId,
                                fetch, env.supabase, insert)
     IN  /\ ledger' = ledger \o r.records
         /\ IF r.ok
            THEN /\ embedding' = Some(r.embedding)
                 /\ outcome' = [outcome EXCEPT !.embed = "ok"]
                 /\ pc' = "retrieve"
                 /\ calls' = [calls EXCEPT !.backend = r.backendCalls,
                                           !.ledgerWrites = @ + r.writes,
                                           !.retrieve = 1]
                 /\ UNCHANGED <<result, threw>>
            ELSE /\ Finish(OuterCatch("Failed to generate embedding: " \o r.message))
                 /\ outcome' = [outcome EXCEPT !.embed = "failed"]
                 /\ calls' = [calls EXCEPT !.backend = r.backendCalls,
                                           !.ledgerWrites = @ + r.writes]
                 /\ UNCHANGED embedding
  /\ UNCHANGED <<env, query, options, ragConfig, settings, contextResult,
                 braveSearchResult, response, summarized, webSearchArg>>
  /\ UNCHANGED <<direct, retrievalOptions, handler, router, stdio>>

\* lightrag.generateContext ends: a hit returns, a miss starts the web search
\* when the fallback is enabled
Retrieve(rpc, store) ==
  /\ pc = "retrieve"
  /\ retrievalOptions' = Some(RetrievalOptionsOf(settings[1], options[1]))
  /\ LET g == generateContext(embedding[1],
                              RetrievalOptionsOf(settings[1], options[1]),
                              ContextOptionsOf(settings[1]), rpc, store)
         counted == [calls EXCEPT !.primary = g.primaryCalls,
                                  !.fallbackQuery = g.fallbackCalls]
     IN  IF ~g.ok
         THEN /\ Finish(OuterCatch(g.message))
              /\ outcome' = [outcome EXCEPT !.retrieve = "failed"]
              /\ calls' = counted
              /\ UNCHANGED <<contextResult, webSearchArg>>
         ELSE /\ contextResult' = Some(g.contextResult)
              /\ outcome' = [outcome EXCEPT !.retrieve = "ok"]
              /\ IF IsHit(g.contextResult)
                 THEN /\ Finish(Returns(g.contextResult))
                      /\ calls' = counted
                      /\ UNCHANGED webSearchArg
                 ELSE IF settings[1].enableFallbackSearch
                 THEN /\ pc' = "websearch"
                      /\ calls' = [counted EXCEPT !.webSearch = @ + 1]
                      /\ webSearchArg' = Some(query)
                      /\ UNCHANGED <<result, threw>>
                 ELSE /\ Finish(Returns(g.contextResult))
                      /\ calls' = counted
                      /\ UNCHANGED webSearchArg
  /\ UNCHANGED <<env, query, options, ragConfig, settings, embedding,
                 braveSearchResult, response, summarized, ledger>>
  /\ UNCHANGED <<direct, handler, router, stdio>>

\* a web search that is invoked again after it threw
WebSearchRetried(answer) ==
  /\ pc = "websearch"
  /\ IF answer.kind = "throws"
     THEN IF calls.webSearch < 2
          THEN /\ calls' = [calls EXCEPT !.webSearch = @ + 1]
               /\ UNCHANGED <<pc, result, threw, outcome, braveSearchResult>>
          ELSE /\ Finish(AfterSearchError(contextResult[1]))
               /\ outcome' = [outcome EXCEPT !.webSearch = "threw"]
               /\ UNCHANGED <<braveSearchResult, calls>>
     ELSE LET found == IF answer.kind = "empty" THEN EmptyResult
                       ELSE BraveGetContext(query,
                              [aiInstanceId |-> options[1].aiInstanceId,
                               maxResults |-> Some(5)],
                              env.brave, answer.api)
          IN  /\ braveSearchResult' = Some(found)
              /\ outcome' = [outcome EXCEPT !.webSearch = "returned"]
              /\ IF HasSearchContent(found)
                 THEN /\ pc' = "summarize"
                      /\ calls' = [calls EXCEPT !.summarize = @ + 1]
                      /\ UNCHANGED <<result, threw>>
                 ELSE /\ Finish(Returns(contextResult[1]))
                      /\ UNCHANGED calls
  /\ UNCHANGED <<env, query, options, ragConfig, settings, embedding,
                 contextResult, response, summarized, webSearchArg, ledger>>
  /\ UNCHANGED <<direct, retrievalOptions, handler, router, stdio>>

\* braveSearchProvider.getContext ends: text starts the summarization
WebSearch(answer) ==
  /\ pc = "websearch"
  /\ IF answer.kind = "throws"
     THEN /\ Finish(AfterSearchError(contextResult[1]))
          /\ outcome' = [outcome EXCEPT !.webSearch = "threw"]
          /\ UNCHANGED <<braveSearchResult, calls>>
     ELSE LET found == IF answer.kind = "empty" THEN EmptyResult
                       ELSE BraveGetContext(query,
                              [aiInstanceId |-> options[1].aiInstanceId,
                               maxResults |-> Some(5)],
                              env.brave, answer.api)
          IN  /\ braveSearchResult' = Some(found)
              /\ outcome' = [outcome EXCEPT !.webSearch = "returned"]
              /\ IF HasSearchContent(found)
                 THEN /\ pc' = "summarize"
                      /\ calls' = [calls EXCEPT !.summarize = @ + 1]
                      /\ UNCHANGED <<result, threw>>
                 ELSE /\ Finish(Returns(contextResult[1]))
                      /\ UNCHANGED calls
  /\ UNCHANGED <<env, query, options, ragConfig, settings, embedding,
                 contextResult, response, summarized, webSearchArg, ledger>>
  /\ UNCHANGED <<direct, retrievalOptions, handler, router, stdio>>

\* routeModelCall ends inside summarizeWebResults; the usage is tracked when
\* the configuration asks for it
Summarize(answer) ==
  /\ pc = "summarize"
  /\ LET s == summarizeWebResults(braveSearchResult[1].context,
                                  options[1].aiInstanceId[1], answer)
     IN  /\ response' = Some(answer)
         /\ summarized' = Some(s)
         /\ outcome' = [outcome EXCEPT
                          !.summarize = IF s.summary = SummaryFailedText
                                        THEN "failed" ELSE "ok"]
         /\ IF settings[1].trackTokenUsage
            THEN /\ pc' = "track"
                 /\ calls' = [calls EXCEPT !.ledgerWrites = @ + 1]
                 /\ UNCHANGED <<result, threw>>
            ELSE /\ Finish(Returns(SummarizedResult(s.summary, s.tokenUsage,
                                                    braveSearchResult[1])))
                 /\ UNCHANGED calls
  /\ UNCHANGED <<env, query, options, ragConfig, settings, embedding,
                 contextResult, braveSearchResult, webSearchArg, ledger>>
  /\ UNCHANGED <<direct, retrievalOptions, handler, router, stdio>>

\* the usage_logs insert of trackSummarizationUsage ends; getContext returns
TrackSummarization(insert) ==
  /\ pc = "track"
  /\ LET tracked == trackSummarizationUsage(options[1].aiInstanceId[1],
                                            summarized[1].tokenUsage, insert)
     IN  /\ ledger' = ledger \o tracked.records
         /\ IF tracked.threw
            THEN Finish(AfterSearchError(contextResult[1]))
            ELSE Finish(Returns(SummarizedResult(summarized[1].summary,
                                                 summarized[1].tokenUsage,
                                                 braveSearchResult[1])))
  /\ outcome' = [outcome EXCEPT !.track = insert]
  /\ UNCHANGED <<env, query, options, ragConfig, settings, embedding,
                 contextResult, braveSearchResult, response, summarized,
                 calls, webSearchArg>>
  /\ UNCHANGED <<direct, retrievalOptions, handler, router, stdio>>

Next ==
  \/ \E q \in Queries, opts \in CallerOptions : Invoke(q, opts)
  \/ \E answer \in ConfigAnswers : LoadConfig(answer)
  \/ \E fetch \in FetchAnswers, insert \in InsertAnswers : Embed(fetch, insert)
  \/ \E rpc \in RpcAnswers, store \in StoreAnswers : Retrieve(rpc, store)
  \/ \E answer \in WebSearchAnswers : WebSearch(answer)
  \/ \E answer \in ModelResponses : Summarize(answer)
  \/ \E insert \in InsertAnswers : TrackSummarization(insert)

Spec == Init /\ [][Next]_vars

\* every external call an invocation awaits returns or throws in the end:
\* the configuration lookup, the web search, the summarization and the
\* ledger write as the actions of their answers, the embedding and the
\* retrieval as the invocation leaving their stage
LiveSpec ==
  /\ Spec
  /\ WF_vars(\E answer \in ConfigAnswers : LoadConfig(answer))
  /\ WF_pc(pc = "embed" /\ pc' \in {"retrieve", "done"})
  /\ WF_pc(pc = "retrieve" /\ pc' \in {"websearch", "done"})
  /\ WF_vars(\E answer \in WebSearchAnswers : WebSearch(answer))
  /\ WF_vars(\E answer \in ModelResponses : Summarize(answer))
  /\ WF_vars(\E insert \in InsertAnswers : TrackSummarization(insert))

(***************************************************************************)
(* SupabaseRetriever called on its own                                     *)
(***************************************************************************)
RetrievalOptions ==
  [aiInstanceId : {"inst-a", "inst-b", "inst-c"},
   maxChunks : {1, 2, DefaultMaxChunks},
   similarityThreshold : {0, DefaultSimilarityThreshold, FallbackScore,
                          FallbackScore + 1, 96},
   filter : {<<>>, << <<"documentId", "d1">> >>, << <<"owner_id", "u1">> >>,
             << <<"documentId", "">> >>,
             << <<"documentId", "d1">>, <<"owner_id", "u1">> >>,
             << <<"lang", "fr">> >>,
             << <<"metadata", << <<"owner_id", "u1">> >> >> >>}]

pipelineVars == <<pc, env, query, options, ragConfig, settings, embedding,
                  retrievalOptions, contextResult, braveSearchResult, response, summarized,
                  result, threw, calls, webSearchArg, outcome>>

\* retriever.retrieveDocuments(embedding, options) with the store answering
\* rpc to the primary search and store to the fallback query; the retriever
\* keeps nothing between calls, so one call is followed
RetrieveDocuments(e, opts, rpc, store) ==
  /\ direct = NoDirect
  /\ direct' = [op |-> "retrieveDocuments",
                input |-> [embedding |-> e, options |-> opts,
                           rpc |-> rpc, store |-> store],
                output |-> retrieveDocuments(e, opts, rpc, store)]
  /\ UNCHANGED <<pipelineVars, ledger, handler, router, stdio>>

RetrieverNext ==
  \E e \in Embeddings, opts \in RetrievalOptions,
     rpc \in RpcAnswers, store \in StoreAnswers :
    RetrieveDocuments(e, opts, rpc, store)

RetrieverSpec == Init /\ [][RetrieverNext]_vars

(***************************************************************************)
(* ContextBuilder called on its own                                        *)
(***************************************************************************)
MaxDocuments == 3

RECURSIVE Repeat(_, _)
Repeat(str, n) == IF n = 0 THEN "" ELSE str \o Repeat(str, n - 1)

\* FingerprintLength characters
LongPrefix == Repeat("0123456789", FingerprintLength \div 10)

\* documents that agree on their first 100 characters ("a", "b"), that
\* differ at the 100th ("c"), without content ("d") and with text to escape
BuilderDocuments ==
  { [id |-> "a", content |-> LongPrefix \o " Paris",
     metadata |-> << <<"document_id", "d1">> >>, score |-> 60],
    [id |-> "b", content |-> LongPrefix \o " Lyon",
     metadata |-> << <<"document_id", "d2">> >>, score |-> 90],
    [id |-> "c", content |-> Substring0(LongPrefix, FingerprintLength - 1) \o "#",
     metadata |-> <<>>, score |-> 90],
    [id |-> "d", content |-> "", metadata |-> <<>>, score |-> NoScore],
    [id |-> "e", content |-> "Nice \"la belle\"",
     metadata |-> << <<"owner_id", "u1">>, <<"page", "2">> >>, score |-> 75] }

DocumentLists ==
  UNION {[1..n -> BuilderDocuments] : n \in 0..MaxDocuments}

\* a budget below one document, and the default
MaxContextLengths == {1, DefaultMaxTokens}

ContextBuilderOptions ==
  [maxContextLength : MaxContextLengths, formatAsJson : BOOLEAN,
   includeMetadata : BOOLEAN, separator : {DefaultSeparator},
   deduplicate : BOOLEAN]

\* contextBuilder.buildContext(documents, options); the builder keeps nothing
\* between calls, so one call is followed
BuildContext(documents, opts) ==
  /\ direct = NoDirect
  /\ direct' = [op |-> "buildContext",
                input |-> [documents |-> documents, options |-> opts],
                output |-> buildContext(documents, opts)]
  /\ UNCHANGED <<pipelineVars, ledger, handler, router, stdio>>

BuilderNext ==
  \E documents \in DocumentLists, opts \in ContextBuilderOptions :
    BuildContext(documents, opts)

BuilderSpec == Init /\ [][BuilderNext]_vars

(***************************************************************************)
(* Embedding providers called on their own                                 *)
(***************************************************************************)
ProviderNames == {"fireworks", "bedrock", "Bedrock", "openai", ""}

ModelIds == {None, Some("deepseek-v2-lite")}

EmbedderConfigs == {[trackUsage |-> t] : t \in {None, Some(TRUE), Some(FALSE)}}

Texts == Queries \cup {""}

InstanceIds == {None, Some(""), Some("inst-a")}

\* createEmbeddingProvider(provider, modelId, config)
CreateEmbeddingProvider(provider, modelId, config) ==
  /\ direct = NoDirect
  /\ direct' = [op |-> "createEmbeddingProvider",
                input |-> [provider |-> provider, modelId |-> modelId,
                           config |-> config],
                output |-> createEmbeddingProvider(provider, modelId, config, env)]
  /\ UNCHANGED <<pipelineVars, ledger, handler, router, stdio>>

\* provider.generateEmbedding(text, aiInstanceId) on the provider just
\* created, with the backend answering fetch and the ledger answering insert
GenerateEmbedding(text, aiInstanceId, fetch, insert) ==
  /\ direct.op = "createEmbeddingProvider"
  /\ LET r == generateEmbedding(direct.output, text, aiInstanceId, fetch,
                                env.supabase, insert)
     IN  /\ direct' = [op |-> "generateEmbedding",
                       input |-> [embedder |-> direct.output, text |-> text,
                                  aiInstanceId |-> aiInstanceId, fetch |-> fetch,
                                  insert |-> insert, ledger |-> ledger],
                       output |-> r]
         /\ ledger' = ledger \o r.records
  /\ UNCHANGED <<pipelineVars, handler, router, stdio>>

EmbedderNext ==
  \/ \E provider \in ProviderNames, modelId \in ModelIds, config \in EmbedderConfigs :
       CreateEmbeddingProvider(provider, modelId, config)
  \/ \E text \in Texts, aiInstanceId \in InstanceIds,
        fetch \in FetchAnswers, insert \in InsertAnswers :
       GenerateEmbedding(text, aiInstanceId, fetch, insert)

EmbedderSpec == Init /\ [][EmbedderNext]_vars

(***************************************************************************)
(* handleContextRequest (context/contextHandler.ts) and the provider       *)
(* registry (context/providers/index.ts)                                   *)
(***************************************************************************)
\* the names createProviderRegistry registers
ProviderRegistry ==
  {"lightrag", "brave", "graph", "mobile", "shopify", "n8n", "zapier", "slack",
   "wordpress", "telegram", "whatsapp", "facebook", "instagram", "webchat"}

\* providers.filter(provider => contextProviders[provider])
EnabledProviders(providers) ==
  SelectSeq(providers, LAMBDA p : p \in ProviderRegistry)

\* Math.floor(maxTokens / enabledProviders.length)
ProviderShare(maxTokens, count) == maxTokens \div count

\* { ...options, aiInstanceId, maxTokens: share }
ProviderOptions(payload, count) ==
  [aiInstanceId |-> payload.aiInstanceId,
   maxTokens |-> Some(ProviderShare(Nullish(payload.maxTokens, DefaultMaxTokens),
                                    count))]

GraphMockContext ==
  "From knowledge graph:\n\nEntity: Supabase (Technology)\n"
    \o "- Description: An open source Firebase alternative with a Postgres database, authentication, and storage.\n"
    \o "- Properties: database_type=postgresql, has_auth=true, has_storage=true\n\n"
    \o "Relationship: Akii uses Supabase\n"
    \o "- Description: Akii uses Supabase for database, authentication, and storage services.\n"
    \o "- Properties: relationship_strength=high, integration_level=deep"

GraphMockSources ==
  << [id |-> "entity-1", content |-> "Entity information about Supabase.",
      metadata |-> [source |-> "knowledge_graph", entityType |-> "Technology",
                    entityName |-> "Supabase"]],
     [id |-> "relation-1", content |-> "Relationship between Akii and Supabase.",
      metadata |-> [source |-> "knowledge_graph", relationType |-> "uses",
                    fromEntity |-> "Akii", toEntity |-> "Supabase"]] >>

\* KnowledgeGraphProvider.getContext: [threw, message, result]
GraphGetContext(q, providerOptions) ==
  IF OrStr(providerOptions.aiInstanceId, "") = ""
  THEN [threw |-> TRUE, message |-> "aiInstanceId is required", result |-> EmptyResult]
  ELSE [threw |-> FALSE, message |-> "",
        result |-> [context |-> GraphMockContext,
                    sources |-> GraphMockSources,
                    tokenCount |-> CeilDiv(Len(GraphMockContext), 4)]]

\* the results LightRAGContextProvider.getContext can end with, for the
\* options the handler passes: the diagnostic of a missing instance id, a
\* hit built from the instance's documents with maxContextLength =
\* (options.maxTokens || 4000), no context at all, and a web search summary
\* for each answer of the model
LightRAGResults(q, providerOptions, braveKey) ==
  IF OrStr(providerOptions.aiInstanceId, "") = ""
  THEN {OuterCatch("aiInstanceId is required").result[1]}
  ELSE LET hit == generateContext(<<1>>,
                    [aiInstanceId |-> providerOptions.aiInstanceId[1],
                     maxChunks |-> DefaultMaxChunks,
                     similarityThreshold |-> DefaultSimilarityThreshold,
                     filter |-> <<>>],
                    [maxContextLength |-> OrNum(providerOptions.maxTokens,
                                                DefaultMaxTokens),
                     formatAsJson |-> FALSE, includeMetadata |-> TRUE,
                     separator |-> DefaultSeparator, deduplicate |-> TRUE],
                    [kind |-> "ok", message |-> ""],
                    [kind |-> "ok", message |-> ""])
           found == BraveGetContext(q,
                      [aiInstanceId |-> providerOptions.aiInstanceId,
                       maxResults |-> Some(5)],
                      braveKey, [kind |-> "throws", web |-> None, news |-> None])
       IN  {hit.contextResult, EmptyResult}
             \cup {LET s == summarizeWebResults(found.context,
                                                providerOptions.aiInstanceId[1], r)
                   IN  SummarizedResult(s.summary, s.tokenUsage, found) :
                   r \in ModelResponses}

\* what provider.getContext(q, providerOptions) can answer
ProviderAnswers(providerName, q, providerOptions, braveKey) ==
  IF providerName = "graph"
  THEN {GraphGetContext(q, providerOptions)}
  ELSE IF providerName = "brave"
  THEN {[threw |-> FALSE, message |-> "",
         result |-> BraveGetContext(q,
                      [aiInstanceId |-> providerOptions.aiInstanceId,
                       maxResults |-> None],
                      braveKey, api)] : api \in BraveApiAnswers}
  ELSE {[threw |-> FALSE, message |-> "", result |-> r] :
          r \in LightRAGResults(q, providerOptions, braveKey)}

\* a per-provider catch that lets the error through
ProviderCatchRethrows(message) ==
  [threw |-> TRUE, result |-> EmptyResult, error |-> Some(message)]

\* the catch around provider.getContext: the error becomes an empty result
ProviderCatch(message) ==
  [threw |-> FALSE, result |-> EmptyResult, error |-> Some(message)]

\* the results in the order in which the provider calls completed
ContextResultsInCompletionOrder(results, completed) ==
  [k \in 1..Len(completed) |-> results[completed[k]]]

\* what Promise.all resolves with: the results in the order of the mapped
\* array, whatever the order of completion
ContextResultsOf(results, completed) ==
  [k \in 1..Len(results) |-> results[k]]

NothingCombined == [combinedContext |-> "", combinedSources |-> <<>>, totalTokens |-> 0]

\* contextResults.forEach(...), from the accumulated values on
RECURSIVE CombineFrom(_, _)
CombineFrom(acc, contextResults) ==
  IF contextResults = <<>> THEN acc
  ELSE LET r == Head(contextResults)
       IN  CombineFrom(
             IF r.context # "" /\ r.tokenCount > 0
             THEN [combinedContext |->
                     acc.combinedContext
                       \o (IF acc.combinedContext # "" THEN "\n\n" ELSE "")
                       \o r.context,
                   combinedSources |-> acc.combinedSources \o r.sources,
                   totalTokens |-> acc.totalTokens + r.tokenCount]
             ELSE acc,
             Tail(contextResults))

DefaultSystemPrompt ==
  "You are a helpful AI assistant. Use the provided context to answer the user's question."

\* formatPrompt(q, context, { systemPrompt, format }) at the time now
formatPrompt(q, context, promptOptions, now) ==
  LET systemPrompt == Nullish(promptOptions.systemPrompt, DefaultSystemPrompt)
      format == Nullish(promptOptions.format, "generic")
      timestamp == "Current date and time: " \o now \o "\n\n"
      head == systemPrompt \o "\n\n" \o timestamp \o "Context:\n" \o context \o "\n\n"
      formatted ==
        IF format = "claude" THEN head \o "Human: " \o q \o "\n\nAssistant:"
        ELSE IF format = "openai" THEN head \o "User: " \o q \o "\n\nAssistant:"
        ELSE IF format = "mistral" THEN head \o "<s>[INST] " \o q \o " [/INST]"
        ELSE IF format = "fireworks" THEN head \o "USER: " \o q \o "\n\nASSISTANT:"
        ELSE head \o "Question: " \o q \o "\n\nAnswer:"
  IN  [formatted |-> formatted, tokenCount |-> CeilDiv(Len(formatted), 4)]

\* JSON.stringify of the system and user messages
formatMessagesPrompt(q, context, systemPrompt) ==
  "[{\"role\":\"system\",\"content\":"
    \o JsonString(Nullish(systemPrompt, DefaultSystemPrompt))
    \o "},{\"role\":\"user\",\"content\":"
    \o JsonString("Here is some relevant context:\n\n" \o context
                  \o "\n\nMy question is: " \o q)
    \o "}]"

\* "Format context if requested"
FormattedPromptResult(formatOptions, q, combinedContext, now) ==
  IF OrStr(formatOptions.format, "") = ""
  THEN [formatted |-> combinedContext, tokenCount |-> 0]
  ELSE IF formatOptions.useMessagesFormat
  THEN [formatted |-> formatMessagesPrompt(q, combinedContext,
                                           formatOptions.systemPrompt),
        tokenCount |-> CeilDiv(Len(combinedContext) + Len(q)
                                 + Len(OrStr(formatOptions.systemPrompt, "")), 4)]
  ELSE formatPrompt(q, combinedContext,
                    [systemPrompt |-> formatOptions.systemPrompt,
                     format |-> formatOptions.format], now)

\* the response of a request whose providers all settled
ContextResponse(payload, enabledProviders, contextResults, now) ==
  LET combined == CombineFrom(NothingCombined, contextResults)
      formattedPromptResult ==
        FormattedPromptResult(payload.formatOptions, payload.query[1],
                              combined.combinedContext, now)
  IN  [success |-> TRUE, error |-> None,
       data |-> Some([context |-> combined.combinedContext,
                      formattedPrompt |-> formattedPromptResult.formatted,
                      sources |-> combined.combinedSources,
                      tokenCount |-> combined.totalTokens,
                      totalTokens |-> combined.totalTokens
                                        + formattedPromptResult.tokenCount,
                      providers |-> enabledProviders])]

\* the outer catch of handleContextRequest
ContextFailure(message) == [success |-> FALSE, error |-> Some(message), data |-> None]

(***************************************************************************)
(* handleContextRequest called on its own                                  *)
(***************************************************************************)
ProviderLists ==
  {None, Some(<<"nosuch">>), Some(<<"graph", "nosuch", "lightrag">>),
   Some(<<"lightrag", "brave">>), Some(<<"brave", "graph", "lightrag">>)}

FormatOptions ==
  {[format |-> None, useMessagesFormat |-> FALSE, systemPrompt |-> None],
   [format |-> Some("claude"), useMessagesFormat |-> FALSE, systemPrompt |-> None],
   [format |-> Some("raw"), useMessagesFormat |-> TRUE, systemPrompt |-> Some("Be brief.")]}

Payloads ==
  [query : {None, Some("Lyon")},
   aiInstanceId : {None, Some("inst-a")},
   maxTokens : {None, Some(40)},
   providers : ProviderLists,
   formatOptions : FormatOptions]

\* new Date().toISOString()
Timestamps == {"2026-01-01T00:00:00.000Z"}

\* handleContextRequest(payload) runs to its await: the validation, and one
\* getContext call started per enabled provider
HandleContextRequest(payload) ==
  /\ handler.pc = "idle"
  /\ LET enabledProviders ==
           EnabledProviders(Nullish(payload.providers, <<"lightrag">>))
         ended(message) ==
           [handler EXCEPT !.pc = "done", !.payload = Some(payload),
                           !.response = Some(ContextFailure(message))]
     IN  IF OrStr(payload.query, "") = ""
         THEN handler' = ended("Query is required")
         ELSE IF Len(enabledProviders) = 0
         THEN handler' = ended("No valid context providers specified")
         ELSE handler' =
                [pc |-> "waiting", payload |-> Some(payload),
                 enabledProviders |-> enabledProviders,
                 pending |-> 1..Len(enabledProviders),
                 answers |-> [k \in 1..Len(enabledProviders) |-> None],
                 results |-> [k \in 1..Len(enabledProviders) |-> EmptyResult],
                 completed |-> <<>>,
                 response |-> None]
  /\ UNCHANGED <<pipelineVars, ledger, direct, router, stdio>>

\* the getContext call of the i-th enabled provider ends; the last one to
\* end resolves Promise.all, and the handler combines, formats and returns
ProviderReturns(i, now) ==
  /\ handler.pc = "waiting"
  /\ i \in handler.pending
  /\ \E answer \in ProviderAnswers(handler.enabledProviders[i],
                                   handler.payload[1].query[1],
                                   ProviderOptions(handler.payload[1],
                                                   Len(handler.enabledProviders)),
                                   env.brave) :
       LET settled == IF answer.threw THEN ProviderCatch(answer.message)
                      ELSE [threw |-> FALSE, result |-> answer.result, error |-> None]
           results == [handler.results EXCEPT ![i] = settled.result]
           completed == Append(handler.completed, i)
           pending == handler.pending \ {i}
           waiting == [handler EXCEPT !.answers[i] = Some(answer),
                                      !.results = results,
                                      !.completed = completed,
                                      !.pending = pending]
       IN  IF settled.threw
           THEN handler' = [waiting EXCEPT
                              !.pc = "done",
                              !.response = Some(ContextFailure(answer.message))]
           ELSE IF pending # {}
           THEN handler' = waiting
           ELSE handler' =
                  [waiting EXCEPT
                     !.pc = "done",
                     !.response =
                        Some(ContextResponse(handler.payload[1],
                                             handler.enabledProviders,
                                             ContextResultsOf(results, completed),
                                             now))]
  /\ UNCHANGED <<pipelineVars, ledger, direct, router, stdio>>

\* the longest provider list of Payloads
MaxProviders == 3

HandlerNext ==
  \/ \E payload \in Payloads : HandleContextRequest(payload)
  \/ \E i \in 1..MaxProviders, now \in Timestamps : ProviderReturns(i, now)

HandlerSpec == Init /\ [][HandlerNext]_vars

(***************************************************************************)
(* routeModelCall on its own: the model router and its module-scoped       *)
(* clients                                                                 *)
(***************************************************************************)
\* the calls of routeModelCall followed
MaxModelCalls == 2

\* the ai_instances table: the organization of each instance
OrganizationOf == [i \in {"inst-a", "inst-b"} |->
                     IF i = "inst-a" THEN "org-a" ELSE "org-b"]

\* the requests followed: the model id decides for Bedrock only
ModelRequests ==
  {r \in [provider : {"bedrock", "fireworks", "openai", "openrouter"},
          modelId : {"anthropic.claude-3-sonnet", "gpt-4o"},
          aiInstanceId : DOMAIN OrganizationOf] :
     r.provider = "bedrock" \/ r.modelId = "gpt-4o"}

\* the key of process.env.OPENROUTER_API_KEY
EnvironmentKey == [organization_id |-> "env", provider |-> "openrouter"]

\* getProviderCredentials(provider, aiInstanceId): null without the Supabase
\* settings and when a lookup finds no row or fails (found = FALSE), else
\* the active credentials of the instance's organization for the provider
getProviderCredentials(provider, aiInstanceId, e, found) ==
  IF ~e.supabase \/ ~found
  THEN None
  ELSE Some([organization_id |-> OrganizationOf[aiInstanceId],
             provider |-> provider])

\* the module-scoped client of a provider, null for the providers called
\* with fetch
ClientOf(rtr, provider) ==
  IF provider = "bedrock" THEN rtr.bedrockClient
  ELSE IF provider = "openai" THEN rtr.openaiClient
  ELSE None

\* the catch of the router and of each provider call: the error is returned
Ended(call, message) ==
  [call EXCEPT !.pc = "done",
               !.response = Some([success |-> FALSE, error |-> message])]

\* the call reaches the provider through the client; a Bedrock model that is
\* neither a claude nor a titan model is rejected before the request is sent
InvokeThrough(call, client) ==
  IF /\ call.request.provider = "bedrock"
     /\ ~Includes(call.request.modelId, "claude")
     /\ ~Includes(call.request.modelId, "titan")
  THEN Ended(call, "Unsupported Bedrock model: " \o call.request.modelId)
  ELSE [call EXCEPT !.pc = "invoke", !.ranWith = client]

\* routeModelCall(request) runs to its first await, the credentials lookup
RouteModelCall(request) ==
  /\ Len(router.calls) < MaxModelCalls
  /\ router' = [router EXCEPT !.calls =
                  Append(@, [request |-> request, pc |-> "credentials",
                             credentials |-> None, ranWith |-> None,
                             response |-> None])]
  /\ UNCHANGED <<pipelineVars, ledger, direct, handler, stdio>>

\* the credentials lookup of call i returns: without credentials the call
\* ends (OpenRouter excepted); a Bedrock or OpenAI call finding the client
\* skips the if (!bedrockClient) / if (!openaiClient) block and goes on
\* with the client that is there, every other call awaits its import
CredentialsReturn(i, found) ==
  /\ i \in 1..Len(router.calls)
  /\ router.calls[i].pc = "credentials"
  /\ LET call == router.calls[i]
         credentials == getProviderCredentials(call.request.provider,
                                               call.request.aiInstanceId,
                                               env, found)
         looked == [call EXCEPT !.credentials = credentials]
     IN  router' =
           [router EXCEPT !.calls[i] =
              IF credentials = None /\ call.request.provider # "openrouter"
              THEN Ended(looked, "No credentials found for provider "
                                   \o call.request.provider)
              ELSE IF ClientOf(router, call.request.provider) # None
              THEN InvokeThrough(looked, ClientOf(router, call.request.provider))
              ELSE [looked EXCEPT !.pc = "import"]]
  /\ UNCHANGED <<pipelineVars, ledger, direct, handler, stdio>>

\* the dynamic import of call i returns or throws: a Bedrock or OpenAI call
\* creates the client from its credentials and calls through it, a
\* Fireworks or OpenRouter call sends its own key
ImportReturns(i, sdk) ==
  /\ i \in 1..Len(router.calls)
  /\ router.calls[i].pc = "import"
  /\ LET call == router.calls[i]
         provider == call.request.provider
     IN  IF provider = "bedrock"
         THEN IF sdk = "throws"
              THEN router' = [router EXCEPT !.calls[i] =
                                Ended(call, "Failed to initialize AWS Bedrock client")]
              ELSE router' = [router EXCEPT
                                !.bedrockClient = call.credentials,
                                !.calls[i] = InvokeThrough(call, call.credentials)]
         ELSE IF provider = "openai"
         THEN IF sdk = "throws"
              THEN router' = [router EXCEPT !.calls[i] =
                                Ended(call, "Failed to initialize OpenAI client")]
              ELSE router' = [router EXCEPT
                                !.openaiClient = call.credentials,
                                !.calls[i] = InvokeThrough(call, call.credentials)]
         ELSE IF sdk = "throws"
         THEN router' = [router EXCEPT !.calls[i] =
                           Ended(call, "Cannot find module 'node-fetch'")]
         ELSE IF provider = "fireworks"
         THEN router' = [router EXCEPT !.calls[i] =
                           InvokeThrough(call, call.credentials)]
         ELSE IF call.credentials # None
         THEN router' = [router EXCEPT !.calls[i] =
                           InvokeThrough(call, call.credentials)]
         ELSE IF env.openrouter
         THEN router' = [router EXCEPT !.calls[i] =
                           InvokeThrough(call, Some(EnvironmentKey))]
         ELSE router' = [router EXCEPT !.calls[i] =
                           Ended(call, "No OpenRouter API key found")]
  /\ UNCHANGED <<pipelineVars, ledger, direct, handler, stdio>>

\* the provider answers call i, or the request fails
ProviderResponds(i, answer) ==
  /\ i \in 1..Len(router.calls)
  /\ router.calls[i].pc = "invoke"
  /\ router' = [router EXCEPT !.calls[i] =
                  IF answer = "ok"
                  THEN [@ EXCEPT !.pc = "done",
                                 !.response = Some([success |-> TRUE, error |-> ""])]
                  ELSE Ended(@, "provider request failed")]
  /\ UNCHANGED <<pipelineVars, ledger, direct, handler, stdio>>

RouterNext ==
  \/ \E request \in ModelRequests : RouteModelCall(request)
  \/ \E i \in 1..MaxModelCalls, found \in BOOLEAN : CredentialsReturn(i, found)
  \/ \E i \in 1..MaxModelCalls, sdk \in {"ok", "throws"} : ImportReturns(i, sdk)
  \/ \E i \in 1..MaxModelCalls, answer \in {"ok", "throws"} :
        ProviderResponds(i, answer)

RouterSpec == Init /\ [][RouterNext]_vars

(***************************************************************************)
(* The stdio interface: process.stdin.on('data')                           *)
(***************************************************************************)
\* the data events followed
MaxEvents == 3

\* the pieces of text a chunk is made of: "req" a JSON request, "null" the
\* JSON text null, "head" and "tail" the two halves of a JSON request,
\* "bad" text that is no JSON, "sp" white space, "nl" the newline
Chunks ==
  { <<"req", "nl">>,
    <<"req", "nl", "req", "nl">>,
    <<"bad", "nl", "req", "nl">>,
    <<"null", "nl", "req", "nl">>,
    <<"head">>,
    <<"tail", "nl">>,
    <<"sp", "nl">> }

\* the lines that can arrive: every event bringing a chunk of the most lines
MaxLines ==
  LET count(c) == Len(SelectSeq(c, LAMBDA el : el = "nl"))
  IN  MaxEvents * (CHOOSE n \in {count(c) : c \in Chunks} :
                     \A c \in Chunks : count(c) <= n)

\* the pieces of a chunk as they sit in the buffer, each newline numbered
\* by the line it ends (received lines came before)
RECURSIVE Numbered(_, _)
Numbered(chunk, received) ==
  IF chunk = <<>> THEN <<>>
  ELSE IF Head(chunk) = "nl"
  THEN <<[t |-> "nl", id |-> received + 1]>> \o Numbered(Tail(chunk), received + 1)
  ELSE <<[t |-> Head(chunk), id |-> 0]>> \o Numbered(Tail(chunk), received)

\* buffer.indexOf('\n'), counted from 1: 0 when buffer.includes('\n') is
\* false
NewlineIndex(buffer) ==
  IF \E i \in 1..Len(buffer) : buffer[i].t = "nl"
  THEN CHOOSE i \in 1..Len(buffer) :
         buffer[i].t = "nl" /\ \A j \in 1..(i - 1) : buffer[j].t # "nl"
  ELSE 0

\* what line.trim() and JSON.parse(line) make of a line: blank, a request,
\* the value null, or text JSON.parse throws on
LineKind(line) ==
  LET text == SelectSeq(line, LAMBDA el : el.t # "sp")
  IN  IF text = <<>> THEN "blank"
      ELSE IF Len(text) = 1 /\ text[1].t = "req" THEN "request"
      ELSE IF Len(text) = 1 /\ text[1].t = "null" THEN "null"
      ELSE IF Len(text) = 2 /\ text[1].t = "head" /\ text[2].t = "tail"
      THEN "request"
      ELSE "malformed"

\* the while loop of the handler up to its next await: every line is cut
\* off the shared buffer; a blank line is skipped, a line JSON.parse throws
\* on ends the handler in its catch, any other line is handed to
\* handleMcpRequest and the handler waits for it
RECURSIVE ReadLines(_)
ReadLines(io) ==
  IF NewlineIndex(io.buffer) = 0 THEN io
  ELSE LET newlineIndex == NewlineIndex(io.buffer)
           line == SubSeq(io.buffer, 1, newlineIndex - 1)
           id   == io.buffer[newlineIndex].id
           cut  == [io EXCEPT !.buffer = SubSeq(@, newlineIndex + 1, Len(@))]
       IN  IF LineKind(line) = "blank" THEN ReadLines(cut)
           ELSE IF LineKind(line) = "malformed"
           THEN [cut EXCEPT !.stdout = Append(@, [line |-> id, success |-> FALSE])]
           ELSE [cut EXCEPT
                   !.awaiting = @ \cup {[line |-> id, kind |-> LineKind(line)]},
                   !.dispatched = Append(@, id)]

\* the kinds of the lines completed so far, each line being the text in
\* front of its newline
RECURSIVE LineKinds(_)
LineKinds(buffer) ==
  IF NewlineIndex(buffer) = 0 THEN <<>>
  ELSE <<LineKind(SubSeq(buffer, 1, NewlineIndex(buffer) - 1))>>
         \o LineKinds(SubSeq(buffer, NewlineIndex(buffer) + 1, Len(buffer)))

\* a 'data' event: the chunk is appended to the buffer and the handler runs
\* its loop up to the first await
Data(chunk) ==
  /\ stdio.events < MaxEvents
  /\ LET received == Len(stdio.lines)
         buffer == stdio.buffer \o Numbered(chunk, received)
         completed == Len(SelectSeq(chunk, LAMBDA el : el = "nl"))
         kinds == LineKinds(buffer)
     IN  stdio' = ReadLines([stdio EXCEPT
                               !.buffer = buffer,
                               !.lines = @ \o SubSeq(kinds, Len(kinds) - completed + 1,
                                                     Len(kinds)),
                               !.events = @ + 1])
  /\ UNCHANGED <<pipelineVars, ledger, direct, handler, router>>

\* handleMcpRequest settles for a waiting handler: it rejects for the value
\* null (request.type is read before its try) and the catch writes the
\* error line; else the response is written and the loop goes on over the
\* shared buffer
HandlerResumes(h) ==
  /\ h \in stdio.awaiting
  /\ LET resumed == [stdio EXCEPT !.awaiting = @ \ {h}]
     IN  IF h.kind = "null"
         THEN stdio' = [resumed EXCEPT !.stdout =
                          Append(@, [line |-> h.line, success |-> FALSE])]
         ELSE stdio' = ReadLines([resumed EXCEPT !.stdout =
                                    Append(@, [line |-> h.line, success |-> TRUE])])
  /\ UNCHANGED <<pipelineVars, ledger, direct, handler, router>>

WaitingHandlers == [line : 1..MaxLines, kind : {"request", "null"}]

StdioNext ==
  \/ \E chunk \in Chunks : Data(chunk)
  \/ \E h \in WaitingHandlers : HandlerResumes(h)

\* the stdio interface with every call of handleMcpRequest settling; input
\* may stop at any time
StdioSpec ==
  /\ Init /\ [][StdioNext]_vars
  /\ \A h \in WaitingHandlers : WF_vars(HandlerResumes(h))

(***************************************************************************)
(* Properties of getContext                                                *)
(***************************************************************************)
IsSequence(s) == DOMAIN s = 1..Len(s)

StartsWith(s, prefix) ==
  Len(s) >= Len(prefix) /\ SubSeq(s, 1, Len(prefix)) = prefix

Returned == pc = "done" /\ result # None

\* generateContext returned no document
Miss == contextResult # None /\ Len(contextResult[1].sources) = 0

\* C1: getContext never throws to its caller: however the configuration
\* lookup, the embedding, the retrieval, the web search, the summarization and
\* the ledger writes end, the invocation returns a ContextResult with a string
\* context, a sequence of sources and an integer tokenCount.
C1_NeverThrows ==
  /\ threw = FALSE
  /\ pc = "done" =>
       /\ result # None
       /\ result[1].context \in STRING
       /\ IsSequence(result[1].sources)
       /\ result[1].tokenCount \in Nat

C1_Witness ==
  /\ pc = "done"
  /\ outcome.embed = "ok" /\ calls.ledgerWrites = 2
  /\ ledger = <<>>
  /\ response # None /\ response[1].kind = "throws"
  /\ outcome.track = "throws"

\* C2: on a hit (generateContext returns at least one source) that result is
\* returned unchanged and neither the web search nor the summarization is
\* invoked, whatever enableFallbackSearch is.
C2_HitShortCircuit ==
  (contextResult # None /\ Len(contextResult[1].sources) > 0) =>
    /\ pc = "done"
    /\ threw = FALSE
    /\ result = contextResult
    /\ calls.webSearch = 0
    /\ calls.summarize = 0

C2_Witness ==
  /\ pc = "done"
  /\ contextResult # None /\ Len(contextResult[1].sources) = 1
  /\ settings[1].enableFallbackSearch
  /\ result = contextResult

\* C3: on a miss with the fallback enabled and a web search that returns text,
\* the web search is invoked exactly once with the original query, the
\* summarization exactly once, and the result carries the web search's sources
\* unmodified and the totalTokens of the summarization's usage (the figure the
\* completion reports when the summary was produced, 0 when it reports none).
C3_FallbackResult ==
  (pc = "done" /\ Miss /\ settings[1].enableFallbackSearch
     /\ braveSearchResult # None /\ braveSearchResult[1].context # "") =>
    /\ calls.webSearch = 1
    /\ webSearchArg = Some(query)
    /\ calls.summarize = 1
    /\ summarized # None /\ response # None
    /\ result # None
    /\ result[1].sources = braveSearchResult[1].sources
    /\ result[1].tokenCount = summarized[1].tokenUsage.totalTokens
    /\ outcome.summarize = "ok" =>
         result[1].tokenCount =
           (IF response[1].usage = None THEN 0
            ELSE OrNum(response[1].usage[1].totalTokens, 0))

C3_Witness ==
  /\ pc = "done" /\ Miss /\ settings[1].enableFallbackSearch
  /\ braveSearchResult # None /\ Len(braveSearchResult[1].sources) = 2
  /\ outcome.summarize = "ok"
  /\ result # None /\ result[1].tokenCount = MaxUsage
  /\ result[1].sources = braveSearchResult[1].sources

\* C4: on a miss with the fallback enabled and a web search that throws, the
\* result is exactly the empty result, the web search was invoked exactly once
\* and the summarization was not invoked.
C4_SearchThrows ==
  (pc = "done" /\ outcome.webSearch = "threw") =>
    /\ Miss /\ settings[1].enableFallbackSearch
    /\ threw = FALSE
    /\ result = Some(EmptyResult)
    /\ calls.webSearch = 1
    /\ calls.summarize = 0

C4_Witness ==
  /\ pc = "done" /\ outcome.webSearch = "threw"
  /\ Miss /\ settings[1].enableFallbackSearch
  /\ calls.webSearch = 1

\* C5: if the summarization fails (success=false, no content, or an exception)
\* after a web search that returned text, getContext returns the empty result
\* and does not surface the exception.
C5_SummarizationFails ==
  (pc = "done" /\ outcome.summarize = "failed") =>
    /\ threw = FALSE
    /\ result = Some(EmptyResult)

\* C6: on a miss with enable_fallback_search=false in the instance's
\* configuration row, the result is exactly the empty result and neither the
\* web search nor the summarization is ever invoked.
C6_FallbackDisabled ==
  (ragConfig # None /\ ragConfig[1].enable_fallback_search = Some(FALSE)) =>
    /\ calls.webSearch = 0
    /\ calls.summarize = 0
    /\ (pc = "done" /\ Miss) => (threw = FALSE /\ result = Some(EmptyResult))

C6_Witness ==
  /\ pc = "done" /\ Miss
  /\ ragConfig # None /\ ragConfig[1].enable_fallback_search = Some(FALSE)
  /\ result = Some(EmptyResult)

\* C7: with options.enableFallbackSearch=false, no configuration row and a
\* miss, the web search is not invoked and the result has context '' and no
\* sources.
C7_CallerOptionRespected ==
  (outcome.config = "norow" /\ options[1].enableFallbackSearch = Some(FALSE)
     /\ Miss) =>
    /\ calls.webSearch = 0
    /\ pc = "done" => (result # None /\ result[1].context = ""
                         /\ result[1].sources = <<>>)

\* C8: on a miss with the fallback enabled and a web search that returns no
\* text, the result is exactly the empty result and the summarization is not
\* invoked.
C8_SearchWithoutText ==
  (braveSearchResult # None /\ braveSearchResult[1].context = "") =>
    /\ Miss /\ settings[1].enableFallbackSearch
    /\ pc = "done"
    /\ threw = FALSE
    /\ result = Some(EmptyResult)
    /\ calls.summarize = 0

C8_Witness ==
  /\ pc = "done"
  /\ outcome.webSearch = "returned"
  /\ braveSearchResult # None /\ braveSearchResult[1].context = ""
  /\ calls.webSearch = 1

\* a context that is empty, the diagnostic of the outer catch, or the
\* placeholder of a failed summarization
IsEmptyOrDiagnostic(context) ==
  \/ context = ""
  \/ StartsWith(context, DiagnosticPrefix)
  \/ context = SummaryFailedText

\* C9: on every exit of getContext, sources is empty if and only if context
\* is empty or a diagnostic/placeholder string.
C9_SourcesIffAnswer ==
  Returned =>
    (Len(result[1].sources) = 0 <=> IsEmptyOrDiagnostic(result[1].context))

\* C10: a failed embedding call ends the invocation: the result is the
\* diagnostic text with no sources and tokenCount = ceil(length/4), and the
\* retrieval, the web search and the summarization are never invoked.
C10_EmbeddingFailureTerminal ==
  outcome.embed = "failed" =>
    /\ pc = "done"
    /\ threw = FALSE
    /\ result # None
    /\ StartsWith(result[1].context,
                  DiagnosticPrefix \o "Failed to generate embedding: ")
    /\ result[1].sources = <<>>
    /\ result[1].tokenCount = CeilDiv(Len(result[1].context), 4)
    /\ calls.retrieve = 0 /\ calls.primary = 0 /\ calls.fallbackQuery = 0
    /\ calls.webSearch = 0
    /\ calls.summarize = 0

C10_Witness ==
  /\ pc = "done"
  /\ outcome.embed = "failed"
  /\ calls.backend = 1
  /\ settings[1].enableFallbackSearch
  /\ result # None /\ Len(result[1].context) % 4 # 0

\* the external calls of one getContext invocation, in the order of the code
Stages == <<"config", "embed", "retrieve", "webSearch", "summarize">>

\* the stage was invoked and its call has not returned or thrown yet
StageRunning(stage) == calls[stage] > 0 /\ outcome[stage] = "none"

\* C23: a getContext invocation is a sequential chain. Each of the
\* configuration lookup, embed, retrieve, web search and summarize calls is
\* invoked at most once; a stage is invoked only after the stage before it
\* was invoked and has returned; so at most one call is running at a time
\* and the calls occur in that order.
C23_SequentialChain ==
  /\ \A i \in 1..Len(Stages) : calls[Stages[i]] \in {0, 1}
  /\ \A i \in 2..Len(Stages) :
        calls[Stages[i]] > 0 =>
          /\ calls[Stages[i - 1]] = 1
          /\ outcome[Stages[i - 1]] \notin {"none", "threw", "failed"}
  /\ \A i \in 1..Len(Stages) : outcome[Stages[i]] # "none" => calls[Stages[i]] = 1
  /\ Cardinality({i \in 1..Len(Stages) : StageRunning(Stages[i])}) <= 1
  /\ \A i \in 1..Len(Stages) :
        StageRunning(Stages[i]) =>
          /\ pc = (<<"config", "embed", "retrieve", "websearch", "summarize">>)[i]
          /\ \A j \in (i + 1)..Len(Stages) : calls[Stages[j]] = 0

C23_Witness ==
  /\ pc = "done"
  /\ \A i \in 1..Len(Stages) : calls[Stages[i]] = 1 /\ outcome[Stages[i]] # "none"

\* C39: if every external call returns or throws in the end, every
\* getContext invocation returns a ContextResult in the end; the invocation
\* has no loop and no retry, so it calls each external capability at most
\* once and writes to the ledger at most twice.
C39_Terminates ==
  /\ [](pc # "idle" => <>(pc = "done" /\ ~threw /\ result # None))
  /\ [](/\ \A c \in {"config", "embed", "backend", "retrieve", "primary",
                      "fallbackQuery", "webSearch", "summarize"} : calls[c] <= 1
        /\ calls.ledgerWrites <= 2)

\* an invocation that made every external call of the pipeline, both ledger
\* writes among them, and returned
C39_Witness ==
  /\ pc = "done" /\ result # None
  /\ \A c \in {"config", "embed", "backend", "retrieve", "primary",
                "webSearch", "summarize"} : calls[c] = 1
  /\ calls.ledgerWrites = 2
  /\ outcome.track # "none"

(***************************************************************************)
(* Properties of the Retriever                                             *)
(***************************************************************************)
Retrieved == direct.op = "retrieveDocuments" /\ direct.output.ok

\* the instance owning the stored row with the given id
InstanceOf(id) ==
  LET i == CHOOSE j \in 1..Len(DocumentVectors) : DocumentVectors[j].id = id
  IN  DocumentVectors[i].ai_instance_id

RowsOfInstance(inst) ==
  {j \in 1..Len(DocumentVectors) : DocumentVectors[j].ai_instance_id = inst}

\* the primary search failed, with this message reaching the catch
PrimaryFailed == direct.input.rpc.kind \in {"error", "throws"}

PrimaryMissingFunction ==
  PrimaryFailed /\ Includes(direct.input.rpc.message, MissingFunctionText)

\* C11: instance isolation. Whatever retrieveDocuments returns for instance
\* I, on the primary path and on the fallback query path, holds only rows of
\* instance I; the scoping is part of the store query: the arguments of the
\* primary search carry I, and the count of rows the store answered with
\* (before any local filter) never exceeds the number of rows of I.
C11_InstanceIsolation ==
  Retrieved =>
    LET opts == direct.input.options
        docs == direct.output.documents
    IN  /\ \A i \in 1..Len(docs) : InstanceOf(docs[i].id) = opts.aiInstanceId
        /\ MatchDocumentsArgs(direct.input.embedding, opts).p_ai_instance_id
              = opts.aiInstanceId
        /\ direct.output.totalFound <= Cardinality(RowsOfInstance(opts.aiInstanceId))

C11_Witness ==
  /\ Retrieved
  /\ direct.output.fallbackCalls = 1
  /\ direct.input.options.aiInstanceId = "inst-b"
  /\ Len(direct.output.documents) = 1
  /\ Cardinality(RowsOfInstance("inst-a")) > 1

\* C12: every document retrieveDocuments returns that carries a score has a
\* score of at least the threshold of the call, on the primary path and on
\* the fallback path.
C12_ScoreAtLeastThreshold ==
  Retrieved =>
    \A i \in 1..Len(direct.output.documents) :
      LET doc == direct.output.documents[i]
      IN  doc.score # NoScore => doc.score >= direct.input.options.similarityThreshold

C12_Witness ==
  /\ Retrieved
  /\ direct.output.fallbackCalls = 1
  /\ direct.input.options.similarityThreshold = FallbackScore
  /\ Len(direct.output.documents) > 1

\* C13: the fallback query runs exactly when the primary search fails with
\* the 'function "match_documents" does not exist' error; any other failure
\* of the primary search reaches the caller as an error, with no fallback
\* query; the primary search is called exactly once per retrieveDocuments.
C13_FallbackOnlyOnMissingFunction ==
  direct.op = "retrieveDocuments" =>
    /\ direct.output.fallbackCalls = (IF PrimaryMissingFunction THEN 1 ELSE 0)
    /\ PrimaryFailed /\ ~PrimaryMissingFunction
          => ~direct.output.ok /\ direct.output.documents = <<>>
    /\ direct.output.primaryCalls = 1

C13_Witness ==
  /\ direct.op = "retrieveDocuments"
  /\ direct.input.rpc = [kind |-> "error", message |-> "permission denied"]
  /\ direct.input.store.kind = "ok"
  /\ ~direct.output.ok
  /\ direct.output.fallbackCalls = 0

\* the rows the primary search answered with, in the order of the store's
\* answer
SearchRows ==
  IF direct.input.rpc.kind = "ok"
  THEN match_documents(MatchDocumentsArgs(direct.input.embedding,
                                          direct.input.options))
  ELSE <<>>

\* the metadata field a filter key is compared with
MetadataKeyOf(key) == IF key = "documentId" THEN "document_id" ELSE key

\* the row carries metadata in which the key's field equals the value
RowHasMetadata(row, key, value) ==
  /\ row.metadata # None
  /\ \E i \in 1..Len(row.metadata[1]) :
        row.metadata[1][i] = <<MetadataKeyOf(key), value>>

RowSatisfies(row, filter) ==
  \A k \in 1..Len(filter) : RowHasMetadata(row, filter[k][1], filter[k][2])

\* the ids of the rows satisfying the filter, in the order of rows
RECURSIVE IdsSatisfying(_, _)
IdsSatisfying(rows, filter) ==
  IF rows = <<>> THEN <<>>
  ELSE (IF RowSatisfies(Head(rows), filter) THEN <<Head(rows).id>> ELSE <<>>)
         \o IdsSatisfying(Tail(rows), filter)

PrimaryAnswered == Retrieved /\ direct.output.fallbackCalls = 0

\* C22: on the primary path with a non-empty options.filter, the returned
\* documents are exactly the search rows whose metadata equals the filter
\* value for every filter key (a row without metadata for a key fails), in
\* the order of the search answer; totalFound is the number of rows before
\* filtering, so totalFound >= documents.length.
C22_PostFilter ==
  PrimaryAnswered =>
    LET docs == direct.output.documents
        filter == direct.input.options.filter
    IN  /\ direct.output.totalFound = Len(SearchRows)
        /\ direct.output.totalFound >= Len(docs)
        /\ filter # <<>> =>
              /\ [i \in 1..Len(docs) |-> docs[i].id] = IdsSatisfying(SearchRows, filter)
              /\ \A i \in 1..Len(docs) :
                    \E j \in 1..Len(SearchRows) :
                      /\ SearchRows[j].id = docs[i].id
                      /\ SearchRows[j].content = docs[i].content
                      /\ SearchRows[j].similarity = docs[i].score

C22_Witness ==
  /\ PrimaryAnswered
  /\ Len(direct.input.options.filter) = 2
  /\ Len(direct.output.documents) = 1
  /\ direct.output.totalFound > 2

\* the fallback query answered
FallbackAnswered == Retrieved /\ direct.output.fallbackCalls = 1

\* C34: the two retrieval paths apply the same metadata filter: every
\* document the fallback query path returns satisfies every key/value pair
\* of options.filter by equality, as on the primary path.
C34_FallbackAppliesFilter ==
  FallbackAnswered =>
    \A i \in 1..Len(direct.output.documents) :
      PassesFilter(direct.output.documents[i], direct.input.options.filter)

\* the number of rows the fallback query fetches: the rows of the instance
\* the query selects, cut at maxChunks
FetchedRows ==
  Min(direct.input.options.maxChunks,
      Cardinality({i \in 1..Len(DocumentVectors) :
                     FallbackRowMatches(DocumentVectors[i], direct.input.options)}))

\* C35: the answer of the fallback path does not depend on the query vector:
\* with the same store and options every query vector gives the same
\* documents and totalFound; every returned document carries the score 0.75,
\* so all fetched rows are returned when similarityThreshold <= 0.75 and none
\* otherwise, and totalFound is the number of fetched rows.
C35_FallbackIgnoresVector ==
  FallbackAnswered =>
    /\ \A e \in Embeddings :
         LET other == retrieveDocumentsFallback(e, direct.input.options,
                                                direct.input.store)
         IN  /\ other.documents = direct.output.documents
             /\ other.totalFound = direct.output.totalFound
    /\ \A i \in 1..Len(direct.output.documents) :
         direct.output.documents[i].score = FallbackScore
    /\ direct.output.totalFound = FetchedRows
    /\ Len(direct.output.documents)
         = (IF direct.input.options.similarityThreshold <= FallbackScore
            THEN FetchedRows ELSE 0)

\* a threshold just above 0.75 empties the answer of a fallback that fetched
\* two rows whose similarities to the query vector differ
C35_Witness ==
  /\ FallbackAnswered
  /\ direct.input.embedding = <<1>>
  /\ direct.input.options.similarityThreshold = FallbackScore + 1
  /\ direct.output.documents = <<>>
  /\ direct.output.totalFound = 2

\* at the threshold 0.75 every fetched row is returned
C35_EveryRowWitness ==
  /\ FallbackAnswered
  /\ direct.input.options.similarityThreshold = FallbackScore
  /\ Len(direct.output.documents) = 3

(***************************************************************************)
(* Properties of the ContextBuilder                                        *)
(***************************************************************************)
Built == direct.op = "buildContext"

First100(doc) ==
  SubSeq(doc.content, 1, IF Len(doc.content) > 100 THEN 100 ELSE Len(doc.content))

\* the position of the first document of the list with the prefix of doc
FirstWithPrefix(documents, doc) ==
  CHOOSE j \in 1..Len(documents) :
    /\ First100(documents[j]) = First100(doc)
    /\ \A k \in 1..(j - 1) : First100(documents[k]) # First100(doc)

\* C14: with deduplicate = true, among the documents that agree on the first
\* 100 characters of their content exactly one is in the returned sources,
\* and it is the one that comes first in the input, also when a later one
\* has the higher score.
C14_DedupKeepsFirst ==
  Built /\ direct.input.options.deduplicate =>
    LET documents == direct.input.documents
        sources == direct.output.sources
    IN  \A i \in 1..Len(documents) :
          LET same == {k \in 1..Len(sources) :
                         First100(sources[k]) = First100(documents[i])}
          IN  /\ Cardinality(same) = 1
              /\ \A k \in same :
                   sources[k] = documents[FirstWithPrefix(documents, documents[i])]

C14_Witness ==
  /\ Built /\ direct.input.options.deduplicate
  /\ Len(direct.input.documents) = 2
  /\ direct.input.documents[1].score = 60
  /\ direct.input.documents[2].score = 90
  /\ direct.input.documents[1].content # direct.input.documents[2].content
  /\ First100(direct.input.documents[1]) = First100(direct.input.documents[2])
  /\ direct.output.sources = <<direct.input.documents[1]>>

RECURSIVE QuarterSum(_)
QuarterSum(documents) ==
  IF documents = <<>> THEN 0
  ELSE (Len(Head(documents).content) + 3) \div 4 + QuarterSum(Tail(documents))

\* the number of places of str where sub starts
Occurrences(str, sub) ==
  Cardinality({i \in 1..(Len(str) - Len(sub) + 1) :
                 SubSeq(str, i, i + Len(sub) - 1) = sub})

\* what the plain-text format writes for one document
TextPiece(doc, includeMetadata) ==
  (IF includeMetadata /\ doc.metadata # <<>>
   THEN "[" \o MetadataStr(doc.metadata) \o "]\n" ELSE "") \o doc.content

RECURSIVE DropLeadingEmpty(_)
DropLeadingEmpty(parts) ==
  IF parts # <<>> /\ Head(parts) = "" THEN DropLeadingEmpty(Tail(parts)) ELSE parts

\* C15: in the plain-text and in the JSON format, the returned tokenCount is
\* the sum over the returned sources of ceil(length(content)/4), and the
\* returned sources are exactly the documents written into context: the
\* text is the sources' pieces joined by the separator (a piece that is
\* empty leaves no trace at the start), the JSON array has one element per
\* source, holding its content.
C15_TokenCountAndSources ==
  Built =>
    LET opts == direct.input.options
        sources == direct.output.sources
        context == direct.output.context
    IN  /\ direct.output.tokenCount = QuarterSum(sources)
        /\ IF opts.formatAsJson
           THEN /\ Occurrences(context, "\n    \"content\": ") = Len(sources)
                /\ \A i \in 1..Len(sources) :
                     Includes(context, "\"content\": " \o JsonString(sources[i].content))
           ELSE context =
                  JoinWith(DropLeadingEmpty(
                             [i \in 1..Len(sources) |->
                                TextPiece(sources[i], opts.includeMetadata)]),
                           opts.separator)

C15_Witness ==
  /\ Built /\ direct.input.options.formatAsJson
  /\ Len(direct.output.sources) = 2
  /\ direct.output.tokenCount = 27 + 4
  /\ direct.output.sources[2].content = "Nice \"la belle\""

\* the score the sort compares, 0 for a document without score
SortKey(doc) == IF doc.score = NoScore THEN 0 ELSE doc.score

\* the documents of the list that are the first with their prefix, among the
\* first n
RECURSIVE FirstsUpTo(_, _)
FirstsUpTo(documents, n) ==
  IF n = 0 THEN <<>>
  ELSE FirstsUpTo(documents, n - 1)
         \o (IF FirstWithPrefix(documents, documents[n]) = n
             THEN <<documents[n]>> ELSE <<>>)

\* the documents that are left after the deduplication, in input order
Remaining ==
  IF direct.input.options.deduplicate
  THEN FirstsUpTo(direct.input.documents, Len(direct.input.documents))
  ELSE direct.input.documents

WithKey(documents, key) == SelectSeq(documents, LAMBDA d : SortKey(d) = key)

\* C30: the sources buildContext returns are the documents left after the
\* deduplication in non-increasing order of score, a missing score counting
\* as 0; documents with equal scores keep their relative input order; with
\* deduplicate = false the sources are a permutation of the input.
C30_SortedStable ==
  Built =>
    LET sources == direct.output.sources
    IN  /\ \A i \in 1..(Len(sources) - 1) : SortKey(sources[i]) >= SortKey(sources[i + 1])
        /\ \A key \in {SortKey(d) : d \in BuilderDocuments} :
              WithKey(sources, key) = WithKey(Remaining, key)
        /\ Len(sources) = Len(Remaining)
        /\ ~direct.input.options.deduplicate =>
              \A d \in BuilderDocuments :
                Cardinality({i \in 1..Len(sources) : sources[i] = d})
                  = Cardinality({i \in 1..Len(direct.input.documents) :
                                   direct.input.documents[i] = d})

C30_Witness ==
  /\ Built /\ ~direct.input.options.deduplicate
  /\ Len(direct.input.documents) = 3
  /\ direct.input.documents[1].score = NoScore
  /\ direct.input.documents[2].score = 90
  /\ direct.input.documents[3].score = 90
  /\ direct.input.documents[2] # direct.input.documents[3]
  /\ direct.output.sources = <<direct.input.documents[2], direct.input.documents[3],
                               direct.input.documents[1]>>

\* C31: maxContextLength has no effect on buildContext: for every document
\* sequence and every pair of maxContextLength values, values below the
\* total content length included, the returned context, sources and
\* tokenCount are identical, and no document left after the deduplication
\* is truncated or dropped because of the budget.
C31_BudgetNotEnforced ==
  Built =>
    /\ \A other \in MaxContextLengths :
          buildContext(direct.input.documents,
                       [direct.input.options EXCEPT !.maxContextLength = other])
            = direct.output
    /\ Len(direct.output.sources) = Len(Remaining)
    /\ \A i \in 1..Len(Remaining) :
          \E k \in 1..Len(direct.output.sources) :
            direct.output.sources[k] = Remaining[i]
    /\ direct.output.tokenCount = QuarterSum(Remaining)

\* a budget of 1 token and an output of more than 30
C31_Witness ==
  /\ Built
  /\ direct.input.options.maxContextLength = 1
  /\ Len(direct.output.sources) = 2
  /\ direct.output.tokenCount > 30
  /\ Includes(direct.output.context, " Paris")

(***************************************************************************)
(* Properties of the embedding providers                                   *)
(***************************************************************************)
Generated == direct.op = "generateEmbedding"

\* trackUsage is enabled and an instance id is supplied
TrackingAsked ==
  /\ direct.input.embedder.trackUsage
  /\ direct.input.aiInstanceId \notin {None, Some("")}

\* the ledger can be written: its credentials are set and the insert succeeds
WriteSucceeds == env.supabase /\ direct.input.insert = "ok"

IsEmbeddingRecord(record) ==
  /\ record.ai_instance_id = direct.input.aiInstanceId[1]
  /\ record.operation_type = "embedding"
  /\ record.output_tokens = 0
  /\ record.input_tokens = direct.output.tokenCount
  /\ record.total_tokens = direct.output.tokenCount

\* C16 as stated: a successful generateEmbedding appends exactly one
\* UsageRecord whenever trackUsage is enabled and an instance id is supplied,
\* and none otherwise.
C16_OneRecordWhenTracked ==
  Generated /\ direct.output.ok =>
    IF TrackingAsked
    THEN /\ Len(ledger) = Len(direct.input.ledger) + 1
         /\ IsEmbeddingRecord(ledger[Len(ledger)])
    ELSE ledger = direct.input.ledger /\ direct.output.writes = 0

\* C16, amended: a successful generateEmbedding appends exactly one
\* UsageRecord when trackUsage is enabled, an instance id is supplied and
\* the ledger write succeeds, with operationType 'embedding', outputTokens 0
\* and inputTokens = totalTokens = the returned tokenCount; it appends no
\* record when the write fails, and it appends no record and makes no
\* ledger client when trackUsage is false or no instance id is supplied.
C16_OneRecordWhenWritten ==
  Generated /\ direct.output.ok =>
    /\ SubSeq(ledger, 1, Len(direct.input.ledger)) = direct.input.ledger
    /\ IF TrackingAsked /\ WriteSucceeds
       THEN /\ Len(ledger) = Len(direct.input.ledger) + 1
            /\ IsEmbeddingRecord(ledger[Len(ledger)])
       ELSE ledger = direct.input.ledger
    /\ ~TrackingAsked => direct.output.writes = 0

C16_Witness ==
  /\ Generated /\ direct.output.ok
  /\ TrackingAsked /\ WriteSucceeds
  /\ direct.input.embedder.kind = "fireworks"
  /\ direct.output.tokenCount = MaxUsage
  /\ Len(ledger) = 1

KnownBackends == {"bedrock", "fireworks"}

\* C18: createEmbeddingProvider fails with a configuration error for every
\* provider name that is not one of the known backends; an unrecognized
\* name never yields another backend.
C18_UnknownProviderRejected ==
  /\ direct.op = "createEmbeddingProvider"
  /\ direct.input.provider # ""
  /\ ToLowerCase(direct.input.provider) \notin KnownBackends
  => direct.output.kind \notin KnownBackends

\* C19: generateEmbedding is not retried. Without credentials it fails with
\* no backend call; on a failed request, a non-success response or an
\* invalid payload it fails after exactly one backend call; every failure is
\* an error raised to the caller, after at most one backend call.
C19_NoRetry ==
  Generated =>
    LET embedder == direct.input.embedder
        fetch == direct.input.fetch
        out == direct.output
    IN  /\ ~embedder.credentials => ~out.ok /\ out.backendCalls = 0
        /\ /\ embedder.kind = "fireworks" /\ embedder.credentials
           /\ (fetch.kind # "ok" \/ fetch.embedding = None)
           => ~out.ok /\ out.backendCalls = 1
        /\ ~out.ok => out.message # "" /\ out.backendCalls <= 1
        /\ out.backendCalls <= 1

C19_Witness ==
  /\ Generated
  /\ direct.input.embedder.kind = "fireworks"
  /\ direct.input.embedder.credentials
  /\ direct.input.fetch.kind = "http_error"
  /\ ~direct.output.ok
  /\ direct.output.backendCalls = 1

\* the backend answered with a usable vector, so a tokenCount is returned
FireworksAnswered ==
  /\ Generated
  /\ direct.output.ok
  /\ direct.input.embedder.kind = "fireworks"

\* C21: EmbeddingResult.tokenCount equals the usage the backend reports
\* whenever it reports one, for every reported value including 0, and
\* equals ceil(text.length / 4) only when the backend reports no usage.
C21_TokenCountFromBackend ==
  FireworksAnswered =>
    IF direct.input.fetch.usage # None
    THEN direct.output.tokenCount = direct.input.fetch.usage[1]
    ELSE direct.output.tokenCount = CeilDiv(Len(direct.input.text), 4)

(***************************************************************************)
(* Properties of the usage accounting and of the configuration             *)
(***************************************************************************)
\* generateEmbedding as getContext calls it, with the ledger write succeeding
EmbedWithWrite(fetch) ==
  generateEmbedding(
    createEmbeddingProvider(settings[1].embeddingProvider,
                            Some(settings[1].embeddingModel),
                            [trackUsage |-> Some(TRUE)], env),
    query, options[1].aiInstanceId, fetch, env.supabase, "ok")

\* the step of the embedding call ends as it does for some answer of the
\* backend when the ledger write succeeds
EmbedsAsIfWritten ==
  \E fetch \in FetchAnswers :
    LET r == EmbedWithWrite(fetch)
    IN  IF r.ok
        THEN pc' = "retrieve" /\ embedding' = Some(r.embedding)
             /\ result' = None /\ ~threw'
        ELSE pc' = "done" /\ ~threw'
             /\ result' = OuterCatch("Failed to generate embedding: " \o r.message).result

\* C17: usage accounting is best-effort. A ledger write that returns an
\* error or throws, for the embedding record or for the summarization
\* record, is attempted once and never again, adds no record, and leaves
\* what the caller gets (the embedding handed on, the ContextResult
\* returned) the same as when the write succeeds.
C17_BestEffortAccounting ==
  [][ /\ pc = "embed" =>
           /\ EmbedsAsIfWritten
           /\ calls'.ledgerWrites = calls.ledgerWrites + (IF pc' = "retrieve" THEN 1 ELSE 0)
      /\ pc = "summarize" =>
           calls'.ledgerWrites = calls.ledgerWrites + (IF pc' = "track" THEN 1 ELSE 0)
      /\ pc = "track" =>
           /\ pc' = "done" /\ ~threw'
           /\ result' = Some(SummarizedResult(summarized[1].summary,
                                              summarized[1].tokenUsage,
                                              braveSearchResult[1]))
           /\ calls'.ledgerWrites = calls.ledgerWrites
           /\ outcome'.track # "ok" => ledger' = ledger
      /\ Len(ledger') <= Len(ledger) + 1
    ]_vars

C17_Witness ==
  /\ pc = "done"
  /\ outcome.track = "throws"
  /\ calls.ledgerWrites = 2
  /\ ledger = <<>>
  /\ result # None /\ result[1].sources # <<>>
  /\ result[1].tokenCount = MaxUsage

\* the caller gave nothing but the instance
NoOverrides ==
  options # None
    /\ options[1] = [NoOptions EXCEPT !.aiInstanceId = options[1].aiInstanceId]

\* C20: an absent RagConfiguration row is not fatal: getContext goes on to
\* embed and retrieve; without overrides of the caller it runs with provider
\* 'fireworks', maxChunks 5, similarityThreshold 0.7, deduplication, usage
\* tracking and fallback search on; a maxChunks or similarityThreshold the
\* caller supplies is the one handed to the Retriever.
C20_AbsentRowDefaults ==
  outcome.config = "norow" =>
    /\ settings # None /\ calls.embed = 1
    /\ outcome.embed = "ok" => calls.retrieve = 1
    /\ NoOverrides =>
         /\ settings[1].embeddingProvider = "fireworks"
         /\ settings[1].maxChunks = 5
         /\ settings[1].similarityThreshold = 70
         /\ settings[1].enableDeduplication
         /\ settings[1].trackTokenUsage
         /\ settings[1].enableFallbackSearch
    /\ retrievalOptions # None =>
         /\ options[1].maxChunks # None
              => retrievalOptions[1].maxChunks = options[1].maxChunks[1]
         /\ options[1].similarityThreshold # None
              => retrievalOptions[1].similarityThreshold
                   = options[1].similarityThreshold[1]
         /\ NoOverrides => /\ retrievalOptions[1].maxChunks = 5
                           /\ retrievalOptions[1].similarityThreshold = 70

\* the summarization records of the ledger
SummarizationRecords ==
  SelectSeq(ledger, LAMBDA record : record.operation_type = "summarization")

\* the web search returned content, so the summarization step is reached
SummarizationReached ==
  /\ outcome.webSearch = "returned"
  /\ braveSearchResult[1].context # ""

\* a usage field as the model reported it, 0 when it reported none or the
\* summarization failed
ReportedUsage(field) ==
  IF outcome.summarize # "ok" \/ response[1].usage = None
       \/ response[1].usage[1][field] = None
  THEN 0
  ELSE response[1].usage[1][field][1]

IsSummarizationRecord(record) ==
  /\ record.operation_type = "summarization"
  /\ record.ai_instance_id = options[1].aiInstanceId[1]
  /\ record.input_tokens = ReportedUsage("contextTokens")
  /\ record.output_tokens = ReportedUsage("completionTokens")

\* C28 as stated: when the web search returned content and trackTokenUsage
\* is true, exactly one summarization record, with inputTokens =
\* usage.contextTokens and outputTokens = usage.completionTokens, is in the
\* ledger when getContext returns, and none before the summarization call
\* ended; when trackTokenUsage is false or the summarization step is not
\* reached, there is none.
C28_OneSummarizationRecord ==
  /\ pc # "done" => SummarizationRecords = <<>>
  /\ pc = "done" =>
        IF SummarizationReached /\ settings[1].trackTokenUsage
        THEN /\ Len(SummarizationRecords) = 1
             /\ IsSummarizationRecord(SummarizationRecords[1])
        ELSE SummarizationRecords = <<>>

\* C28, amended: when the web search returned content, trackTokenUsage is
\* true and the ledger write succeeds, exactly one summarization record, with
\* inputTokens = usage.contextTokens and outputTokens =
\* usage.completionTokens, is appended after the summarization call ended
\* and before getContext returns; when the write fails, trackTokenUsage is
\* false or the summarization step is not reached, no summarization record
\* is appended.
C28_OneSummarizationRecordWhenWritten ==
  /\ pc # "done" => SummarizationRecords = <<>>
  /\ pc = "track" => outcome.summarize # "none"
  /\ pc = "done" =>
        IF SummarizationReached /\ settings[1].trackTokenUsage
             /\ outcome.track = "ok"
        THEN /\ Len(SummarizationRecords) = 1
             /\ IsSummarizationRecord(SummarizationRecords[1])
             /\ ledger[Len(ledger)] = SummarizationRecords[1]
        ELSE SummarizationRecords = <<>>

C28_Witness ==
  /\ pc = "done"
  /\ outcome.track = "ok"
  /\ Len(SummarizationRecords) = 1
  /\ SummarizationRecords[1].input_tokens = MaxUsage
  /\ SummarizationRecords[1].output_tokens = 1

\* C29: every UsageRecord in the ledger has totalTokens = inputTokens +
\* outputTokens, for every usage a backend can report, responses in which
\* some usage fields are missing included.
C29_TotalIsInputPlusOutput ==
  \A k \in 1..Len(ledger) :
    ledger[k].total_tokens = ledger[k].input_tokens + ledger[k].output_tokens

\* the configuration row of the instance turns the usage tracking off
TrackingTurnedOff ==
  /\ ragConfig # None
  /\ ragConfig[1].track_token_usage = Some(FALSE)

\* C32: when the instance's configuration has trackTokenUsage = false, a
\* getContext invocation appends no UsageRecord to the ledger, neither for
\* the embedding call nor for the summarization call.
C32_NoRecordWhenTrackingOff ==
  TrackingTurnedOff => ledger = <<>>

\* C33: when a configuration row exists, the maxChunks and the
\* similarityThreshold handed to the Retriever are the row's values, for
\* every value of their declared ranges (maxChunks > 0, similarityThreshold
\* in [0, 1], 0 included); a configured value is never replaced by a caller
\* option or by the default.
C33_RowValuesPassed ==
  retrievalOptions # None /\ ragConfig # None =>
    /\ ragConfig[1].max_chunks # None =>
          retrievalOptions[1].maxChunks = ragConfig[1].max_chunks[1]
    /\ ragConfig[1].similarity_threshold # None =>
          retrievalOptions[1].similarityThreshold
            = ragConfig[1].similarity_threshold[1]

(***************************************************************************)
(* Properties of the model router                                          *)
(***************************************************************************)
\* the credentials getProviderCredentials finds for the instance of a call
OwnCredentials(call) ==
  [organization_id |-> OrganizationOf[call.request.aiInstanceId],
   provider |-> call.request.provider]

\* C36: every model call made through routeModelCall runs with the
\* credentials looked up for its own instance: once a call for instance A
\* created the module-scoped Bedrock or OpenAI client, a later or concurrent
\* call for instance B with the same provider never runs with A's
\* credentials.
C36_OwnCredentialsUsed ==
  \A i \in 1..Len(router.calls) :
    router.calls[i].ranWith # None =>
      router.calls[i].ranWith[1] \in {OwnCredentials(router.calls[i]), EnvironmentKey}

\* the calls through fetch, the summarization among them, send the key of
\* their own instance
C36_FetchCallsUseOwnKey ==
  \A i \in 1..Len(router.calls) :
    /\ router.calls[i].ranWith # None
    /\ router.calls[i].request.provider \in {"fireworks", "openrouter"}
    => router.calls[i].ranWith[1] \in {OwnCredentials(router.calls[i]), EnvironmentKey}

C36_FetchWitness ==
  /\ Len(router.calls) = 2
  /\ \A i \in 1..2 : /\ router.calls[i].request.provider = "fireworks"
                      /\ router.calls[i].pc = "done"
                      /\ router.calls[i].response[1].success
  /\ router.calls[1].request.aiInstanceId # router.calls[2].request.aiInstanceId

(***************************************************************************)
(* Properties of the stdio interface                                       *)
(***************************************************************************)
\* the response lines written for line k
ResponsesTo(k) == {i \in 1..Len(stdio.stdout) : stdio.stdout[i].line = k}

\* C37: on the stdio interface the responses are written in the order in
\* which their request lines were received, also when a data event arrives
\* while the handler of an earlier event awaits handleMcpRequest; each
\* request line is parsed and dispatched once.
C37_ResponsesInOrder ==
  /\ \A i, j \in 1..Len(stdio.stdout) :
       i < j => stdio.stdout[i].line < stdio.stdout[j].line
  /\ \A i, j \in 1..Len(stdio.dispatched) :
       i < j => stdio.dispatched[i] # stdio.dispatched[j]

\* each line is cut off the buffer once, so it is dispatched once, in the
\* order of arrival
C37_DispatchedOnceInOrder ==
  \A i, j \in 1..Len(stdio.dispatched) :
    i < j => stdio.dispatched[i] < stdio.dispatched[j]

\* C38: every complete line that is not blank gets one response line in the
\* end, without more input arriving, also a well-formed line behind a
\* malformed one in the same chunk.
C38_EveryLineAnswered ==
  \A k \in 1..MaxLines :
    [](k <= Len(stdio.lines) /\ stdio.lines[k] # "blank"
         => <>(Cardinality(ResponsesTo(k)) = 1))

\* no line gets two response lines
C38_AtMostOneResponse ==
  \A k \in 1..MaxLines : Cardinality(ResponsesTo(k)) <= 1

\* with no handler waiting, a complete line is left in the buffer
C38_LineLeftBehind ==
  stdio.awaiting = {} /\ NewlineIndex(stdio.buffer) > 0

(***************************************************************************)
(* Properties of handleContextRequest                                      *)
(***************************************************************************)
\* the request passed the validation, its providers all settled and the
\* response was made
HandlerServed ==
  /\ handler.pc = "done"
  /\ handler.enabledProviders # <<>>
  /\ handler.pending = {}

ProviderThrew(k) == handler.answers[k][1].threw

\* what the call of each enabled provider came to, in the order of the
\* request's provider list: its result, or nothing when it threw
Listed ==
  [k \in 1..Len(handler.enabledProviders) |->
     IF ProviderThrew(k) THEN EmptyResult ELSE handler.answers[k][1].result]

RECURSIVE ContextsJoined(_)
ContextsJoined(rs) ==
  IF rs = <<>> THEN ""
  ELSE IF Len(rs) = 1 THEN rs[1].context
  ELSE rs[1].context \o "\n\n" \o ContextsJoined(Tail(rs))

RECURSIVE SourcesJoined(_)
SourcesJoined(rs) ==
  IF rs = <<>> THEN <<>> ELSE rs[1].sources \o SourcesJoined(Tail(rs))

RECURSIVE TokensSummed(_)
TokensSummed(rs) ==
  IF rs = <<>> THEN 0 ELSE rs[1].tokenCount + TokensSummed(Tail(rs))

\* the listed results with text and a positive token count
Counted == SelectSeq(Listed, LAMBDA r : r.context # "" /\ r.tokenCount > 0)

\* C24: the fan-in of handleContextRequest does not depend on the order in
\* which the parallel provider calls complete: the combined context, sources
\* and tokenCount are those of the providers' results taken in the order of
\* the provider list, and what one provider call returned is what the
\* handler holds for it, whatever the other calls did.
C24_OrderInsensitive ==
  HandlerServed =>
    /\ handler.response[1].success
    /\ handler.results = Listed
    /\ LET data == handler.response[1].data[1]
       IN  /\ data.context = ContextsJoined(Counted)
           /\ data.sources = SourcesJoined(Counted)
           /\ data.tokenCount = TokensSummed(Counted)

\* two providers with different texts were combined, and the first of the
\* list was not the first to complete
C24_Witness ==
  /\ HandlerServed
  /\ handler.completed[1] # 1
  /\ Len(Counted) >= 2
  /\ Counted[1].context # Counted[2].context

NonEmpty == SelectSeq(Listed, LAMBDA r : r.context # "")

\* C26: every enabled provider that returns a non-empty context contributes
\* its context and its sources to the combined output, in the order of the
\* request's provider list, and the combined tokenCount is the sum of the
\* tokenCounts of the contributing providers.
C26_EveryNonEmptyContributes ==
  HandlerServed =>
    LET data == handler.response[1].data[1]
    IN  /\ data.context = ContextsJoined(NonEmpty)
        /\ data.sources = SourcesJoined(NonEmpty)
        /\ data.tokenCount = TokensSummed(NonEmpty)

\* C27: the produced context is bounded by the token budget: with maxTokens
\* (default 4000) split as floor(maxTokens / number of enabled providers),
\* the tokenCount of each provider's result is at most its share and the
\* combined tokenCount of the response is at most maxTokens.
C27_BoundedByBudget ==
  HandlerServed =>
    LET maxTokens == Nullish(handler.payload[1].maxTokens, DefaultMaxTokens)
        share == maxTokens \div Len(handler.enabledProviders)
    IN  /\ \A k \in 1..Len(Listed) : Listed[k].tokenCount <= share
        /\ handler.response[1].data[1].tokenCount <= maxTokens

====
